---- MODULE Spec2Model ----
(***************************************************************************)
(* Plaintext lifecycle manager (TempFileManager) of SecureNotes together   *)
(* with the part of the encryption engine (NotepadEncryption) and of the   *)
(* host editor it depends on.                                              *)
(*                                                                         *)
(* The extension host is single threaded.  A handler runs synchronously    *)
(* up to an `await`; the continuation of an await on an already settled    *)
(* promise is a microtask, and the microtask queue is FIFO and is drained  *)
(* before the next macrotask runs.  A timer callback is a macrotask of its *)
(* own.  The messages of the host (notifications, commands, replies) that  *)
(* arrive together are dispatched one after the other in one macrotask, so *)
(* a message handler may run while continuations of an earlier message of  *)
(* the same batch are still queued, and never while those of a timer are.  *)
(*                                                                         *)
(* Every handler is an operator from a state record to a state record, so  *)
(* that a handler calling another is function application; an action of    *)
(* the next-state relation commits the record a handler returns.           *)
(***************************************************************************)
EXTENDS Integers, Sequences, FiniteSets, Bags, TLC

\* ------------------------------------------------------------------ bounds
\* Operations the user performs in a run: opens, saves, tab closes, moves,
\* deletions, renames, and the unlock and lock commands.  Everything else
\* (notifications, timers, continuations, records, edits, managers) is
\* bounded through it.
MaxCalls == 4
\* the same bound in the runs checked under fairness
MaxFairCalls == 3
\* the operations of the user after the four that DeepSpec starts from
MaxDeepCalls == 2
\* the operations of the user in a run of SharedSpec
MaxSharedCalls == 3
\* the operations of the user after the two that ClosingSpec starts from
MaxClosingCalls == 3
\* the commands of the user in a run of EngineSpec and of KeySpec
MaxEngineCalls == 2
\* the bytes of the longest buffer of BufferSpec, and the commands of the
\* user in a run of it
MaxBufferLen == 4
MaxBufferCalls == 1
\* the ticks of the clock in a run of DebounceSpec
MaxDebounceTicks == 6
\* the notifications of a file before its handler runs
MaxBurst == 3

\* --------------------------------------------------------------- constants
ENCRYPTION_VERSION == 2

\* SECURE_FILE_PERMISSIONS.PRIVATE (0o600) and .READABLE (0o644)
PRIVATE == 384
READABLE == 420
\* the file type bits of the st_mode of a regular file (0o100000)
RegularFile == 32768

\* the debounce window of the change notifications, in ms
SAVE_DEBOUNCE_MS == 100

\* the default of the setting encryption.sessionTimeoutMinutes
DefaultTimeoutMinutes == 30

Paths == {"x/a.enc"}

\* A note of the same name in another folder whose md5 starts with the same
\* 8 hex digits as that of the note of Paths (the prefix has 2^32 values:
\* /home/u/notes/54240/a.enc and /home/u/notes/64079/a.enc both give
\* c728e8cb).
SamePrefix == {"y/a.enc"}

\* md5(encryptedPath).slice(0, 8), on the paths of the model
PathHash(p) == IF p \in Paths \cup SamePrefix THEN "h1" ELSE "h2"

\* path.basename(encryptedPath).replace(/\.enc$/, '')
FileName(p) == "a"

NoPath == <<0, "", "">>
NoState == [tempPath |-> NoPath, encryptedPath |-> "", gen |-> 0]
Absent == -1                     \* no plaintext file at the path
\* no file at the path
NoFile ==
    [version |-> 0, encryptedKey |-> 0, iv |-> 0, authTag |-> 0,
     content |-> 0, hmac |-> <<>>]
\* no call of the engine yet
NoCall ==
    [op |-> "", envelope |-> NoFile, error |-> "", compared |-> FALSE,
     cipher |-> FALSE, value |-> Absent]

\* ------------------------------------------------------------------- paths
\* A path is the sequence of its segments, a segment the sequence of its
\* characters; the string of a path is the sequence of the characters of
\* all of it, separators included.

\* the string of an absolute path
RECURSIVE PathString(_)
PathString(segments) ==
    IF segments = <<>> THEN <<>>
    ELSE <<"/">> \o Head(segments) \o PathString(Tail(segments))

\* String.prototype.startsWith
startsWith(string, prefix) ==
    /\ Len(string) >= Len(prefix)
    /\ SubSeq(string, 1, Len(prefix)) = prefix

\* The file a path leads to: the file system takes the segment ".." to the
\* parent directory.
RECURSIVE Resolved(_, _)
Resolved(above, segments) ==
    IF segments = <<>> THEN above
    ELSE IF Head(segments) = <<".", ".">>
    THEN Resolved(IF above = <<>> THEN <<>>
                  ELSE SubSeq(above, 1, Len(above) - 1), Tail(segments))
    ELSE Resolved(Append(above, Head(segments)), Tail(segments))

\* basePath, the directory of the session directories
basePath == << <<"t">> >>

\* SecureTempStorage.tempDir: path.join(basePath, 'secureNotes-' + sessionId)
storageDir == Append(basePath, <<"s">>)

\* The paths handed to SecureTempStorage: a file of the session directory;
\* a file of basePath whose name starts with the name of the session
\* directory; a file of basePath, by a path through the session directory
\* and by its own path.
StoragePaths ==
    {Append(storageDir, <<"f">>),
     Append(basePath, <<"s", "x">>),
     storageDir \o << <<".", ".">>, <<"o">> >>,
     Append(basePath, <<"o">>)}

\* the files these paths lead to
DiskFiles == {Resolved(<<>>, p) : p \in StoragePaths}

\* no file at any of them
NoDisk == [f \in DiskFiles |-> Absent]
\* The files a debounced handler is called with.  A debouncer just made:
\* the Map pendingFiles is empty and no timer is set.  Of each file it is
\* noted when it was last notified, how many notifications came since the
\* handler last ran, and how often the handler ran since the last one.
DebouncePaths == {"f", "g"}
NoDebouncer ==
    [pendingFiles |-> [f \in DebouncePaths |-> Absent],
     timeouts |-> EmptyBag,
     notified |-> [f \in DebouncePaths |-> Absent],
     burst |-> [f \in DebouncePaths |-> 0],
     handled |-> [f \in DebouncePaths |-> 0]]
\* no call of SecureTempStorage yet
NoIo == [op |-> "", path |-> <<>>, error |-> "", value |-> Absent]

VARIABLES
    tempFiles,            \* Map<tempPath, TempFileState>
    saveInProgress,       \* Set<tempPath>
    pendingFiles,         \* debounce timers of createDebouncedFileHandler
    closeTimers,          \* pending setTimeout(.., 100) of handleDocumentClosed
    watchers,             \* live FileSystemWatchers, <<tempPath, gen>>
    plainFile,            \* files of the session directory
    encFile,              \* encrypted files of the notes directory
    publicKey,            \* NotepadEncryption.publicKey is loaded
    privateKey,           \* NotepadEncryption.privateKey is loaded
    isUnlocked,           \* NotepadEncryption.isUnlocked (private key loaded)
    sessionTimeoutHandle, \* the session timeout timer is armed
    microtasks,           \* FIFO queue of continuations
    rpc,                  \* the queued continuations stem from host messages
    waiting,              \* bag of invocations suspended on a timer or the host
    tabs,                 \* temp paths shown in an editor tab
    saveNotif,            \* onDidSaveTextDocument events not yet dispatched
    watchNotif,           \* file system change events not yet dispatched
    tabClosed,            \* onDidChangeTabs (closed) events not yet dispatched
    docClosed,            \* onDidCloseTextDocument events not yet dispatched
    edits,                \* number of the last edit written by the editor
    gen,                  \* number of records created so far
    tempDir,              \* session directory of the current TempFileManager
    calls,                \* operations the user may still perform
    hist,                 \* history: what has been persisted and erased,
                          \* when the session was last unlocked or used
                          \* and when the setting last changed
    now,                  \* the time: minutes in TimedSpec, ms in DebounceSpec
    lastActivity,         \* NotepadEncryption.lastActivity
    timeoutMinutes,       \* the setting encryption.sessionTimeoutMinutes
    timeoutAt,            \* when the timer of sessionTimeoutHandle is due
    timers,               \* bag of due times of the pending session timers
    last,                 \* the last direct call of the engine, and its result
    disk,                 \* the files SecureTempStorage is asked for, by
                          \* resolved path
    io,                   \* the last call of SecureTempStorage, and its result
    keyMode,              \* st_mode of the private key file
    platform,             \* process.platform
    debouncer             \* createDebouncedFileHandler, with the clock

vars == <<tempFiles, saveInProgress, pendingFiles, closeTimers, watchers,
          plainFile, encFile, publicKey, privateKey, isUnlocked,
          sessionTimeoutHandle, microtasks, rpc, waiting, tabs, saveNotif,
          watchNotif, tabClosed, docClosed, edits, gen, tempDir, calls, hist,
          now, lastActivity, timeoutMinutes, timeoutAt, timers, last,
          disk, io, keyMode, platform,
          debouncer>>

\* The session directories: the constructor of a manager makes a fresh one
\* (secureNotes-<random sessionId>), and a manager is made at activation and
\* by every lock command.
TempDirs == 1..(MaxCalls + 1)

\* createTempPath: path.join(tempDir, `${pathHash}_${fileName}`)
createTempPath(dir, p) == <<dir, PathHash(p), FileName(p)>>

TempPaths == {createTempPath(dir, p) : dir \in TempDirs, p \in Paths}

\* The state as one record.
Cur ==
    [tempFiles |-> tempFiles, saveInProgress |-> saveInProgress,
     pendingFiles |-> pendingFiles, closeTimers |-> closeTimers,
     watchers |-> watchers, plainFile |-> plainFile, encFile |-> encFile,
     publicKey |-> publicKey, privateKey |-> privateKey,
     isUnlocked |-> isUnlocked,
     sessionTimeoutHandle |-> sessionTimeoutHandle,
     microtasks |-> microtasks, rpc |-> rpc, waiting |-> waiting,
     tabs |-> tabs,
     saveNotif |-> saveNotif, watchNotif |-> watchNotif,
     tabClosed |-> tabClosed, docClosed |-> docClosed, edits |-> edits,
     gen |-> gen, tempDir |-> tempDir, calls |-> calls, hist |-> hist,
     now |-> now,
     lastActivity |-> lastActivity,
     timeoutMinutes |-> timeoutMinutes,
     timeoutAt |-> timeoutAt,
     timers |-> timers,
     last |-> last,
     disk |-> disk,
     io |-> io,
     keyMode |-> keyMode,
     platform |-> platform,
     debouncer |-> debouncer]

\* The state a handler leaves becomes the next state.  The state is bound
\* once (r), so that it is computed once for all the variables.
Commit(s) ==
    \E r \in {s} :
        /\ r.calls >= 0
        /\ tempFiles' = r.tempFiles
        /\ saveInProgress' = r.saveInProgress
        /\ pendingFiles' = r.pendingFiles
        /\ closeTimers' = r.closeTimers
        /\ watchers' = r.watchers
        /\ plainFile' = r.plainFile
        /\ encFile' = r.encFile
        /\ publicKey' = r.publicKey
        /\ privateKey' = r.privateKey
        /\ isUnlocked' = r.isUnlocked
        /\ sessionTimeoutHandle' = r.sessionTimeoutHandle
        /\ microtasks' = r.microtasks
        /\ rpc' = (r.rpc /\ r.microtasks # <<>>)
        /\ waiting' = r.waiting
        /\ tabs' = r.tabs
        /\ saveNotif' = r.saveNotif
        /\ watchNotif' = r.watchNotif
        /\ tabClosed' = r.tabClosed
        /\ docClosed' = r.docClosed
        /\ edits' = r.edits
        /\ gen' = r.gen
        /\ tempDir' = r.tempDir
        /\ calls' = r.calls
        /\ hist' = r.hist
        /\ now' = r.now
        /\ lastActivity' = r.lastActivity
        /\ timeoutMinutes' = r.timeoutMinutes
        /\ timeoutAt' = r.timeoutAt
        /\ timers' = r.timers
        /\ last' = r.last
        /\ disk' = r.disk
        /\ io' = r.io
        /\ keyMode' = r.keyMode
        /\ platform' = r.platform
        /\ debouncer' = r.debouncer

\* ------------------------------------------------------ encryption engine

\* The random AES key of an envelope wrapped under the public key
\* (publicEncrypt, RSA-OAEP), and the random IV.  privateDecrypt unwraps
\* WrappedKey and throws on any other value.
WrappedKey == 1
Iv == 1

\* AES-256-GCM under the per-file key: the ciphertext and its tag
Cipher(pt) == pt + 100
GcmTag(iv, ct) == ct + iv + 2000

\* The HMAC-SHA256 digest of the ciphertext under the per-file key, as the
\* sequence of its bytes (one stands for the 32).  The empty sequence is an
\* hmac field that is absent or the empty string.
Mac(ct) == <<ct + 1000>>

\* NotepadEncryption.encrypt, the envelope it returns
encrypt(plaintext) ==
    [version |-> ENCRYPTION_VERSION,
     encryptedKey |-> WrappedKey,
     iv |-> Iv,
     authTag |-> GcmTag(Iv, Cipher(plaintext)),
     content |-> Cipher(plaintext),
     hmac |-> Mac(Cipher(plaintext))]

\* encrypt of the engine of version 1 (src/src/encryption.ts): the same
\* envelope with version 1 and no hmac field
encryptV1(plaintext) ==
    [version |-> 1,
     encryptedKey |-> WrappedKey,
     iv |-> Iv,
     authTag |-> GcmTag(Iv, Cipher(plaintext)),
     content |-> Cipher(plaintext),
     hmac |-> <<>>]

\* decipher.update and decipher.final on a ciphertext whose tag verifies
decrypt(encrypted) == encrypted.content - 100

\* what a call of encrypt comes to: EncryptionNotUnlockedError without the
\* public key, an envelope otherwise
encryptCall(s, plaintext) ==
    IF ~s.publicKey THEN [error |-> "NotUnlocked", value |-> NoFile]
    ELSE [error |-> "", value |-> encrypt(plaintext)]

\* crypto.timingSafeEqual: a RangeError when the lengths differ
timingSafeEqual(a, b) ==
    IF Len(a) # Len(b) THEN "RangeError"
    ELSE IF a = b THEN "equal" ELSE "differ"

\* a verification that takes no account of the field and the version
VerifiesHmacAlways(encrypted) == encrypted.version >= 1

\* the HMAC of the envelope is verified: the field is truthy and the
\* version is 2 or more
VerifiesHmac(encrypted) == encrypted.hmac # <<>> /\ encrypted.version >= 2

\* the result of a call of decrypt: the error thrown ("" for none), the
\* plaintext, whether the HMAC was recomputed and compared, whether the
\* cipher step (createDecipheriv) was reached and whether recordActivity was
\* called
Thrown(error, compared, cipher, activity) ==
    [error |-> error, value |-> Absent, compared |-> compared,
     cipher |-> cipher, activity |-> activity]

\* what a call of decrypt comes to.  EncryptionNotUnlockedError without the
\* private key.  Inside the try: privateDecrypt, the HMAC verification,
\* createDecipheriv and setAuthTag, recordActivity, then update and final,
\* which throws when the tag does not verify.  The catch rethrows an
\* IntegrityCheckFailedError and wraps anything else in a
\* DecryptionFailedError.
decryptCall(s, encrypted) ==
    IF ~s.privateKey THEN Thrown("NotUnlocked", FALSE, FALSE, FALSE)
    ELSE IF encrypted.encryptedKey # WrappedKey
    THEN Thrown("DecryptionFailed", FALSE, FALSE, FALSE)
    ELSE IF /\ VerifiesHmac(encrypted)
            /\ timingSafeEqual(Mac(encrypted.content), encrypted.hmac)
                   = "RangeError"
    THEN Thrown("DecryptionFailed", TRUE, FALSE, FALSE)
    ELSE IF /\ VerifiesHmac(encrypted)
            /\ timingSafeEqual(Mac(encrypted.content), encrypted.hmac)
                   = "differ"
    THEN Thrown("IntegrityCheckFailed", TRUE, FALSE, FALSE)
    ELSE IF encrypted.authTag # GcmTag(encrypted.iv, encrypted.content)
    THEN Thrown("DecryptionFailed", VerifiesHmac(encrypted), TRUE, TRUE)
    ELSE [error |-> "", value |-> decrypt(encrypted),
          compared |-> VerifiesHmac(encrypted), cipher |-> TRUE,
          activity |-> TRUE]

\* clearSessionTimeout: clearTimeout on the timer of the handle (nothing
\* happens when that timer has fired), and the handle is null afterwards
clearSessionTimeout(s) ==
    IF s.sessionTimeoutHandle
    THEN [s EXCEPT !.timers = @ (-) SetToBag({s.timeoutAt}),
                   !.sessionTimeoutHandle = FALSE,
                   !.timeoutAt = 0]
    ELSE s

\* a resetSessionTimeout that returns on a disabled timeout before it
\* clears the pending timer
resetSessionTimeoutLate(s) ==
    IF ~s.isUnlocked \/ s.timeoutMinutes <= 0 THEN s
    ELSE [clearSessionTimeout(s) EXCEPT
            !.timers = @ (+) SetToBag({s.now + s.timeoutMinutes}),
            !.sessionTimeoutHandle = TRUE,
            !.timeoutAt = s.now + s.timeoutMinutes]

\* resetSessionTimeout: clear the timer; while unlocked and with a positive
\* sessionTimeoutMinutes, set a timer of that many minutes
resetSessionTimeout(s) ==
    IF ~s.isUnlocked \/ s.timeoutMinutes <= 0 THEN clearSessionTimeout(s)
    ELSE [clearSessionTimeout(s) EXCEPT
            !.timers = @ (+) SetToBag({s.now + s.timeoutMinutes}),
            !.sessionTimeoutHandle = TRUE,
            !.timeoutAt = s.now + s.timeoutMinutes]

\* recordActivity
recordActivity(s) == resetSessionTimeout([s EXCEPT !.lastActivity = s.now])

\* a lock that leaves the private key in memory
lockKeepingPrivateKey(s) ==
    clearSessionTimeout([s EXCEPT !.publicKey = FALSE, !.isUnlocked = FALSE])

\* NotepadEncryption.lock
lock(s) ==
    clearSessionTimeout([s EXCEPT !.publicKey = FALSE, !.privateKey = FALSE,
                                  !.isUnlocked = FALSE])

\* the callback of the session timer due at d: lock()
sessionTimeoutCallback(s, d) ==
    lock([s EXCEPT !.timers = @ (-) SetToBag({d})])

\* loadPublicKey; it throws when the key path is unset or the file missing
loadPublicKey(s, found) ==
    IF found THEN [s EXCEPT !.publicKey = TRUE] ELSE s

\* verifyFilePermissions, not strict: the permission bits of the mode
\* (stats.mode & 0o777) are the expected ones
verifyFilePermissions(mode, expectedMode) == mode % 512 = expectedMode

\* a loadPrivateKey that goes on whatever the permissions of the key file
loadPrivateKeyUnchecked(s, accepted) ==
    IF accepted THEN "" ELSE "InvalidPassphrase"

\* The error loadPrivateKey throws, "" for none: EncryptionNotConfiguredError
\* when the key file has other permissions than PRIVATE and the platform is
\* not win32; then createPrivateKey on the content of the file, which throws
\* unless the passphrase is the one of the key (accepted).
loadPrivateKeyError(s, accepted) ==
    IF /\ ~verifyFilePermissions(s.keyMode, PRIVATE)
       /\ s.platform # "win32"
    THEN "NotConfigured"
    ELSE IF accepted THEN "" ELSE "InvalidPassphrase"

\* loadPrivateKey: the key is set and isUnlocked true unless it throws
loadPrivateKey(s, accepted) ==
    IF loadPrivateKeyError(s, accepted) = ""
    THEN [s EXCEPT !.privateKey = TRUE, !.isUnlocked = TRUE]
    ELSE s

\* NotepadEncryption.unlock up to the passphrase prompt: the public key is
\* loaded, the private key (kept under a passphrase) does not load without
\* one, and the caller m waits for unlock to return.  When loadPublicKey
\* throws, unlock returns false and the caller does nothing more.
\* When loadPrivateKey throws an error that is not about the passphrase,
\* unlock returns false without a prompt.
unlock(s, m, found) ==
    IF ~found THEN s
    ELSE IF loadPrivateKeyError(s, FALSE) = "NotConfigured"
    THEN [loadPublicKey(s, TRUE) EXCEPT
             !.microtasks = Append(@, [m EXCEPT !.c = 0])]
    ELSE [loadPublicKey(s, TRUE) EXCEPT !.waiting = @ (+) SetToBag({m})]

\* showInputBox of unlock resolves and the continuation of unlock is queued:
\*   "ok"       the passphrase that loadPrivateKey is going to accept
\*   "refused"  the prompt is cancelled, or loadPrivateKey is going to throw
\* Field c of the continuation is what unlock is going to return, 1 for
\* true and 0 for false.
unlockPrompted(s, m, outcome) ==
    [s EXCEPT !.microtasks =
        Append(@, [m EXCEPT !.c = IF outcome = "ok" THEN 1 ELSE 0])]

\* what unlock returns after the prompt: true when the prompt was answered
\* with the passphrase and loadPrivateKey(passphrase) does not throw
unlockReturns(s, m) == m.c = 1 /\ loadPrivateKeyError(s, TRUE) = ""

\* unlock from the answer to the prompt on: `return false` when the prompt
\* was cancelled or loadPrivateKey(passphrase) throws, else the key is
\* loaded, the session timeout armed and true returned
unlockDone(s, m) ==
    IF unlockReturns(s, m)
    THEN resetSessionTimeout(
             [loadPrivateKey(s, TRUE) EXCEPT !.hist.active = s.now])
    ELSE loadPrivateKey(s, FALSE)

\* encryptFile can read its source and encrypt: the plaintext file exists
\* and the public key is loaded (encrypt throws EncryptionNotUnlockedError)
CanEncryptFile(s, sourcePath) ==
    /\ s.plainFile[sourcePath] # Absent
    /\ encryptCall(s, s.plainFile[sourcePath]).error = ""

Max(a, b) == IF a >= b THEN a ELSE b

\* an encryptFile that locks the session when it cannot encrypt
encryptFileLocking(s, sourcePath, destPath) ==
    IF CanEncryptFile(s, sourcePath)
    THEN recordActivity(
           [s EXCEPT !.encFile[destPath] =
                         encryptCall(s, s.plainFile[sourcePath]).value,
                     !.hist.persisted[destPath] =
                         Max(@, s.plainFile[sourcePath])])
    ELSE lock(s)

\* an encryptFile that returns to its caller before it has written
encryptFileDeferred(s, sourcePath, destPath) ==
    IF CanEncryptFile(s, sourcePath) THEN recordActivity(s) ELSE s

\* NotepadEncryption.encryptFile: readFileSync, encrypt, writeFileSync, with
\* no await in between; a throw leaves the destination as it was
encryptFile(s, sourcePath, destPath) ==
    IF CanEncryptFile(s, sourcePath)
    THEN recordActivity(
           [s EXCEPT !.encFile[destPath] =
                         encryptCall(s, s.plainFile[sourcePath]).value,
                     !.hist.persisted[destPath] =
                         Max(@, s.plainFile[sourcePath])])
    ELSE s

\* -------------------------------------------------------------- file utils

\* The timer of a file that a notification has set is <<file, due time>>.
\* a debounced handler that sets a timer and leaves the earlier one
debouncedNotClearing(s, filePath, wait) ==
    LET d == s.debouncer
    IN  [s EXCEPT !.debouncer =
            [d EXCEPT
                !.timeouts = @ (+) SetToBag({<<filePath, s.now + wait>>}),
                !.pendingFiles[filePath] = s.now + wait,
                !.notified[filePath] = s.now,
                !.burst[filePath] =
                    IF d.pendingFiles[filePath] = Absent THEN 1 ELSE @ + 1,
                !.handled[filePath] = 0]]

\* createDebouncedFileHandler, the function it returns: clearTimeout on
\* the timer of the file, if the Map has one; setTimeout(.., wait); the new
\* timer is put in the Map
debounced(s, filePath, wait) ==
    LET d == s.debouncer
        existing == d.pendingFiles[filePath]
    IN  [s EXCEPT !.debouncer =
            [d EXCEPT
                !.timeouts =
                    (IF existing # Absent
                     THEN @ (-) SetToBag({<<filePath, existing>>}) ELSE @)
                    (+) SetToBag({<<filePath, s.now + wait>>}),
                !.pendingFiles[filePath] = s.now + wait,
                !.notified[filePath] = s.now,
                !.burst[filePath] = IF existing = Absent THEN 1 ELSE @ + 1,
                !.handled[filePath] = 0]]

\* createDebouncedFileHandler, the callback of a timer: the entry of the
\* file leaves the Map and the handler is called
debouncedCallback(s, timeout) ==
    [s EXCEPT !.debouncer.timeouts = @ (-) SetToBag({timeout}),
              !.debouncer.pendingFiles[timeout[1]] = Absent,
              !.debouncer.handled[timeout[1]] = @ + 1]

\* secureDelete: overwrite with zeros and unlink; nothing if there is no file
secureDelete(s, filePath) == [s EXCEPT !.plainFile[filePath] = Absent]

\* ------------------------------------------------------- SecureTempStorage

\* the test of the three operations: the string of the path starts with the
\* string of the session directory
InTempDir(filePath) ==
    startsWith(PathString(filePath), PathString(storageDir))

\* the result of a call
Io(op, filePath, error, value) ==
    [op |-> op, path |-> filePath, error |-> error, value |-> value]

\* writeSecureFile: fs.writeFileSync
writeSecureFile(s, filePath, content) ==
    IF ~InTempDir(filePath)
    THEN [s EXCEPT !.io = Io("write", filePath, "outside", Absent)]
    ELSE [s EXCEPT !.disk[Resolved(<<>>, filePath)] = content,
                   !.io = Io("write", filePath, "", content)]

\* readSecureFile: fs.readFileSync, which throws ENOENT when there is no file
readSecureFile(s, filePath) ==
    IF ~InTempDir(filePath)
    THEN [s EXCEPT !.io = Io("read", filePath, "outside", Absent)]
    ELSE IF s.disk[Resolved(<<>>, filePath)] = Absent
    THEN [s EXCEPT !.io = Io("read", filePath, "ENOENT", Absent)]
    ELSE [s EXCEPT !.io = Io("read", filePath, "",
                             s.disk[Resolved(<<>>, filePath)])]

\* deleteSecureFile: secureDelete, which overwrites and unlinks the file and
\* does nothing if there is none
deleteSecureFile(s, filePath) ==
    IF ~InTempDir(filePath)
    THEN [s EXCEPT !.io = Io("delete", filePath, "outside", Absent)]
    ELSE [s EXCEPT !.disk[Resolved(<<>>, filePath)] = Absent,
                   !.io = Io("delete", filePath, "", Absent)]

\* --------------------------------------------------------- TempFileManager

\* a lookup that finds no record
findNothing(s, encryptedPath) == NoState

\* The maps and sets of all managers are kept in one, keyed by temp path:
\* the paths of two managers differ in the directory.  The temp paths of
\* the manager in service:
Own(s) == {t \in TempPaths : t[1] = s.tempDir}

\* findByEncryptedPath: the first record with that encryptedPath
findByEncryptedPath(s, encryptedPath) ==
    IF \E t \in Own(s) : s.tempFiles[t].encryptedPath = encryptedPath
    THEN s.tempFiles[CHOOSE t \in Own(s) :
                        s.tempFiles[t].encryptedPath = encryptedPath]
    ELSE NoState

\* A suspended invocation: the step k it resumes at, the record `st` it
\* captured, the caller `by` of a reEncryptFile, the trigger `origin` of the
\* invocation, and the content `c` its encryptFile wrote (Absent: none).
Task(k, st, by, origin, c) ==
    [k |-> k, t |-> st.tempPath, st |-> st, by |-> by, origin |-> origin,
     c |-> c]

\* reEncryptFile invocations of a temp path whose promise has not settled
InFlight(s, tempPath) ==
    Cardinality({i \in 1..Len(s.microtasks) :
                    /\ s.microtasks[i].k = "reEncryptFile"
                    /\ s.microtasks[i].t = tempPath})

\* closeEditorTabs: the host closes the tab and will report it
closeEditorTabs(s, tempPath) ==
    IF s.tabs[tempPath]
    THEN [s EXCEPT !.tabs[tempPath] = FALSE,
                   !.tabClosed = @ \cup {tempPath},
                   !.docClosed = @ \cup {tempPath}]
    ELSE s

\* reEncryptFile up to its await: encryptFile has run, and whether it threw
\* is swallowed by the catch; the invocation `by` awaits the result
reEncryptFile(s, state, by, origin) ==
    LET s1 == encryptFile(s, state.tempPath, state.encryptedPath)
    IN  [s1 EXCEPT !.microtasks =
            Append(@, Task("reEncryptFile", state, by, origin,
                           IF CanEncryptFile(s, state.tempPath)
                           THEN s.plainFile[state.tempPath] ELSE Absent))]

\* reEncryptFile after its await: the promise settles, the caller resumes
reEncryptFileDone(s, m) ==
    [s EXCEPT !.microtasks = Append(@, [m EXCEPT !.k = m.by])]

\* handleFileChange up to its await
handleFileChange(s, tempPath) ==
    IF tempPath \in s.saveInProgress THEN s
    ELSE IF s.tempFiles[tempPath] = NoState THEN s
    ELSE reEncryptFile(
           [s EXCEPT !.saveInProgress = @ \cup {tempPath}],
           s.tempFiles[tempPath], "handleFileChange", "save")

\* a handleFileChange without its finally block
handleFileChangeStuck(s, m) == s

\* a handleFileChange that gives the record up when its re-encryption
\* failed
handleFileChangeGivingUp(s, m) ==
    IF m.c = Absent
    THEN [s EXCEPT !.saveInProgress = @ \ {m.t},
                   !.plainFile[m.t] = Absent,
                   !.tempFiles[m.t] = NoState]
    ELSE [s EXCEPT !.saveInProgress = @ \ {m.t}]

\* handleFileChange, the finally block
handleFileChangeDone(s, m) ==
    [s EXCEPT !.saveInProgress = @ \ {m.t}]

\* cleanupTempFile: dispose the watcher, erase the plaintext, drop the record
cleanupTempFile(s, tempPath) ==
    IF s.tempFiles[tempPath] = NoState THEN s
    ELSE LET state == s.tempFiles[tempPath]
             s1 == secureDelete(s, tempPath)
         IN  [s1 EXCEPT !.watchers = @ \ {<<tempPath, state.gen>>},
                        !.tempFiles[tempPath] = NoState,
                        !.hist.erased = @ \cup {state.gen}]

\* cleanupTempFileAsync after the forced final re-encryption
cleanupTempFileAsyncDone(s, m) == cleanupTempFile(s, m.t)

\* cleanupTempFileAsync from "Force final re-encrypt" on
cleanupFlush(s, state, origin) ==
    IF s.plainFile[state.tempPath] # Absent
    THEN reEncryptFile(s, state, "cleanupTempFileAsync", origin)
    ELSE cleanupTempFile(s, state.tempPath)

\* cleanupTempFileAsync up to its first await
cleanupTempFileAsync(s, tempPath, origin) ==
    IF s.tempFiles[tempPath] = NoState THEN s
    ELSE IF tempPath \in s.saveInProgress
    THEN [s EXCEPT !.waiting = @ (+) SetToBag({
              Task("cleanupWait", s.tempFiles[tempPath],
                   "cleanupTempFileAsync", origin, Absent)})]
    ELSE cleanupFlush(s, s.tempFiles[tempPath], origin)

\* handleTabsChanged for one closed tab
handleTabsChanged(s, tempPath) ==
    IF s.tempFiles[tempPath] # NoState
    THEN cleanupTempFileAsync(s, tempPath, "tab")
    ELSE s

\* handleDocumentClosed: arm the 100 ms timer
handleDocumentClosed(s, tempPath) ==
    IF s.tempFiles[tempPath] = NoState THEN s
    ELSE [s EXCEPT !.closeTimers[tempPath] = @ + 1]

\* the callback of the timer of handleDocumentClosed
documentClosedTimeout(s, tempPath) ==
    LET s1 == [s EXCEPT !.closeTimers[tempPath] = @ - 1]
    IN  IF s1.tempFiles[tempPath] # NoState
        THEN cleanupTempFileAsync(s1, tempPath, "doc")
        ELSE s1

\* onFileMovedOrDeleted
onFileMovedOrDeleted(s, oldEncryptedPath) ==
    LET state == findByEncryptedPath(s, oldEncryptedPath)
    IN  IF state = NoState THEN s
        ELSE cleanupTempFileAsync(closeEditorTabs(s, state.tempPath),
                                  state.tempPath, "moved")

\* the onDidSaveTextDocument listener of the constructor
onDidSaveTextDocument(s, tempPath) ==
    IF s.tempFiles[tempPath] # NoState
    THEN handleFileChange(s, tempPath)
    ELSE s

\* createDebouncedFileHandler, the returned function: (re)arm the timer
debouncedSave(s, tempPath) ==
    [s EXCEPT !.pendingFiles = @ \cup {tempPath}]

\* createDebouncedFileHandler, the timer callback
debounceTimeout(s, tempPath) ==
    handleFileChange([s EXCEPT !.pendingFiles = @ \ {tempPath}], tempPath)

\* the directory exists: the manager in service made it, and the editor
\* makes the missing directories of a file it writes
DirExists(s, dir) ==
    \/ dir = s.tempDir
    \/ \E t \in TempPaths : t[1] = dir /\ s.plainFile[t] # Absent

\* decryptFile throws: no envelope to read, or decrypt throws
DecryptFails(s, encryptedPath) ==
    \/ s.encFile[encryptedPath] = NoFile
    \/ decryptCall(s, s.encFile[encryptedPath]).error # ""

\* an open that sets its record before it decrypts
openRecordFirst(s, dir, encryptedPath) ==
    [s EXCEPT !.tempFiles[createTempPath(dir, encryptedPath)] =
                  [tempPath |-> createTempPath(dir, encryptedPath),
                   encryptedPath |-> encryptedPath, gen |-> s.gen + 1],
              !.gen = @ + 1]

\* openEncryptedFile of the manager of directory dir from decryptFile on:
\* decrypt, write the plaintext, create the watcher, set the record, then
\* await focusFile; a throw of decryptFile or of secureWriteFile (the
\* directory is gone) is caught and nothing is created
openDecrypt(s, dir, encryptedPath) ==
    IF DecryptFails(s, encryptedPath)
    THEN IF /\ s.encFile[encryptedPath] # NoFile
            /\ decryptCall(s, s.encFile[encryptedPath]).activity
         THEN recordActivity(s) ELSE s
    ELSE IF ~DirExists(s, dir) THEN recordActivity(s)
    ELSE LET tempPath == createTempPath(dir, encryptedPath)
             state == [tempPath |-> tempPath, encryptedPath |-> encryptedPath,
                       gen |-> s.gen + 1]
             live == \E w \in s.watchers : w[1] = tempPath
             s1 == recordActivity(s)
         IN  [s1 EXCEPT
                !.plainFile[tempPath] =
                    decryptCall(s, s.encFile[encryptedPath]).value,
                !.watchNotif = IF live THEN @ \cup {tempPath} ELSE @,
                !.watchers = @ \cup {<<tempPath, s.gen + 1>>},
                !.tempFiles[tempPath] = state,
                !.gen = @ + 1,
                !.waiting = @ (+) SetToBag({
                    Task("focusFile", state, "openEncryptedFile", "open",
                         Absent)})]

\* openEncryptedFile up to its first await; `found` is whether the public
\* key file is there should unlock be called
openEncryptedFile(s, encryptedPath, found) ==
    LET existingState == findByEncryptedPath(s, encryptedPath)
    IN  IF existingState # NoState
        THEN [s EXCEPT !.waiting = @ (+) SetToBag({
                 Task("focusFile", existingState, "openEncryptedFile", "open",
                      Absent)})]
        ELSE IF ~s.isUnlocked
        THEN unlock(s,
                 Task("unlock",
                      [NoState EXCEPT
                          !.tempPath = createTempPath(s.tempDir, encryptedPath),
                          !.encryptedPath = encryptedPath],
                      "openEncryptedFile", "open", Absent),
                 found)
        ELSE openDecrypt(s, s.tempDir, encryptedPath)

\* the command that opens a note, up to its first await: unlock a locked
\* session first, else call openEncryptedFile of the manager in service
openEncryptedFileCommand(s, encryptedPath, found) ==
    IF ~s.isUnlocked
    THEN unlock(s,
             Task("unlock",
                  [NoState EXCEPT
                      !.tempPath = createTempPath(s.tempDir, encryptedPath),
                      !.encryptedPath = encryptedPath],
                  "openEncryptedFileCommand", "open", Absent),
             found)
    ELSE openEncryptedFile(s, encryptedPath, found)

\* unlock returns to its caller.  When it returned true the command calls
\* openEncryptedFile of the manager then in service (the session is
\* unlocked, so that call does not unlock), and openEncryptedFile of a
\* manager goes on with decryptFile; the unlock command shows a message.
openUnlocked(s, m) ==
    IF m.origin = "open" /\ unlockReturns(s, m)
    THEN IF m.by = "openEncryptedFileCommand"
         THEN openEncryptedFile(unlockDone(s, m), m.st.encryptedPath, TRUE)
         ELSE openDecrypt(unlockDone(s, m), m.t[1], m.st.encryptedPath)
    ELSE unlockDone(s, m)

\* the unlock command
unlockCommand(s, found) ==
    unlock(s, Task("unlock", NoState, "unlockCommand", "command", Absent),
           found)

\* dispose: dispose the listeners and the watchers of the records, erase
\* the plaintext of every record, clear the map, remove the directory
dispose(s) ==
    LET open == {t \in Own(s) : s.tempFiles[t] # NoState}
    IN  [s EXCEPT
           !.watchers = @ \ {<<t, s.tempFiles[t].gen>> : t \in open},
           !.plainFile = [t \in TempPaths |->
                             IF t \in Own(s) THEN Absent ELSE @[t]],
           !.tempFiles = [t \in TempPaths |->
                             IF t \in Own(s) THEN NoState ELSE @[t]],
           !.hist.erased = @ \cup {s.tempFiles[t].gen : t \in open}]

\* the lock command: dispose the manager, make a new one (with a directory
\* of its own), lock the engine
lockCommand(s) ==
    lock([dispose(s) EXCEPT !.tempDir = @ + 1])

\* focusFile once the host has opened and shown the document; opening a
\* missing file is rejected
focusFileDone(s, m) ==
    IF s.plainFile[m.t] # Absent THEN [s EXCEPT !.tabs[m.t] = TRUE] ELSE s

\* saveAndCloseBeforeMove after the forced re-encryption: close the tabs,
\* dispose the captured watcher, erase, drop whatever record the key holds
saveAndCloseBeforeMoveDone(s, m) ==
    LET s1 == secureDelete(closeEditorTabs(s, m.t), m.t)
    IN  [s1 EXCEPT !.watchers = @ \ {<<m.t, m.st.gen>>},
                   !.tempFiles[m.t] = NoState,
                   !.hist.erased =
                       IF s.tempFiles[m.t] # NoState
                       THEN @ \cup {s.tempFiles[m.t].gen} ELSE @]

\* What saveAndCloseBeforeMove returns when it has run to the end of its try
\* block.  Nothing in the block throws (reEncryptFile and secureDelete catch
\* what their calls throw), so the `return false` of the catch is never run.
saveAndCloseBeforeMoveReturns(s, m) == TRUE

\* saveAndCloseBeforeMove from "Force final re-encrypt" on
saveAndCloseFlush(s, state) ==
    IF s.plainFile[state.tempPath] # Absent
    THEN reEncryptFile(s, state, "saveAndCloseBeforeMove", "move")
    ELSE saveAndCloseBeforeMoveDone(s,
           Task("saveAndCloseBeforeMove", state, "saveAndCloseBeforeMove",
                "move", Absent))

\* saveAndCloseBeforeMove up to its first await; isDirty is doc.isDirty
saveAndCloseBeforeMove(s, encryptedPath, isDirty) ==
    LET state == findByEncryptedPath(s, encryptedPath)
    IN  IF state = NoState THEN s
        ELSE IF s.tabs[state.tempPath] /\ isDirty
        THEN [s EXCEPT !.waiting = @ (+) SetToBag({
                 Task("docSave", state, "saveAndCloseBeforeMove", "move",
                      Absent)})]
        ELSE saveAndCloseFlush(s, state)

\* The editor saves the document of a temp path with new content: the file
\* is written (created if missing), the save and, under a live watcher, the
\* change are reported
hostSave(s, tempPath) ==
    [s EXCEPT !.plainFile[tempPath] = s.edits + 1,
              !.edits = @ + 1,
              !.saveNotif = @ \cup {tempPath},
              !.watchNotif = IF \E w \in s.watchers : w[1] = tempPath
                             THEN @ \cup {tempPath} ELSE @]

\* saveAndCloseBeforeMove after `await doc.save()`: wait 100 ms
docSaveDone(s, m) ==
    LET s1 == IF s.tabs[m.t] THEN hostSave(s, m.t) ELSE s
    IN  [s1 EXCEPT !.waiting = @ (+) SetToBag({[m EXCEPT !.k = "settle"]})]

\* the continuation of an await on a settled promise
runTask(s, m) ==
    CASE m.k = "reEncryptFile" -> reEncryptFileDone(s, m)
      [] m.k = "handleFileChange" -> handleFileChangeDone(s, m)
      [] m.k = "cleanupTempFileAsync" -> cleanupTempFileAsyncDone(s, m)
      [] m.k = "saveAndCloseBeforeMove" -> saveAndCloseBeforeMoveDone(s, m)
      [] m.k = "unlock" -> openUnlocked(s, m)

\* an invocation leaves the bag of suspended invocations
Resume(s, m) == [s EXCEPT !.waiting = @ (-) SetToBag({m})]

Suspended(k) == {m \in BagToSet(waiting) : m.k = k}

\* ----------------------------------------------------------------- actions

\* the fields of a manager just constructed, in a locked session, with the
\* envelopes of the workspace holding the first version of their notes
Fresh(budget) ==
    [tempFiles |-> [t \in TempPaths |-> NoState],
     saveInProgress |-> {},
     pendingFiles |-> {},
     closeTimers |-> [t \in TempPaths |-> 0],
     watchers |-> {},
     plainFile |-> [t \in TempPaths |-> Absent],
     encFile |-> [p \in Paths \cup SamePrefix |-> encrypt(0)],
     publicKey |-> FALSE,
     privateKey |-> FALSE,
     isUnlocked |-> FALSE,
     sessionTimeoutHandle |-> FALSE,
     microtasks |-> <<>>,
     rpc |-> FALSE,
     waiting |-> EmptyBag,
     tabs |-> [t \in TempPaths |-> FALSE],
     saveNotif |-> {},
     watchNotif |-> {},
     tabClosed |-> {},
     docClosed |-> {},
     edits |-> 0,
     gen |-> 0,
     tempDir |-> 1,
     calls |-> budget,
     hist |-> [persisted |-> [p \in Paths \cup SamePrefix |-> 0],
              erased |-> {},
              active |-> 0, changed |-> -1],
     now |-> 0,
     lastActivity |-> 0,
     timeoutMinutes |-> DefaultTimeoutMinutes,
     timeoutAt |-> 0,
     timers |-> EmptyBag,
     last |-> NoCall,
     disk |-> NoDisk,
     io |-> NoIo,
     keyMode |-> RegularFile + PRIVATE,
     platform |-> "linux",
     debouncer |-> NoDebouncer]

\* the program is in state s
Resumes(s) ==
    /\ tempFiles = s.tempFiles
    /\ saveInProgress = s.saveInProgress
    /\ pendingFiles = s.pendingFiles
    /\ closeTimers = s.closeTimers
    /\ watchers = s.watchers
    /\ plainFile = s.plainFile
    /\ encFile = s.encFile
    /\ publicKey = s.publicKey
    /\ privateKey = s.privateKey
    /\ isUnlocked = s.isUnlocked
    /\ sessionTimeoutHandle = s.sessionTimeoutHandle
    /\ microtasks = s.microtasks
    /\ rpc = s.rpc
    /\ waiting = s.waiting
    /\ tabs = s.tabs
    /\ saveNotif = s.saveNotif
    /\ watchNotif = s.watchNotif
    /\ tabClosed = s.tabClosed
    /\ docClosed = s.docClosed
    /\ edits = s.edits
    /\ gen = s.gen
    /\ tempDir = s.tempDir
    /\ calls = s.calls
    /\ hist = s.hist
    /\ now = s.now
    /\ lastActivity = s.lastActivity
    /\ timeoutMinutes = s.timeoutMinutes
    /\ timeoutAt = s.timeoutAt
    /\ timers = s.timers
    /\ last = s.last
    /\ disk = s.disk
    /\ io = s.io
    /\ keyMode = s.keyMode
    /\ platform = s.platform
    /\ debouncer = s.debouncer

Start(budget) == Resumes(Fresh(budget))

Init == Start(MaxCalls)

\* one more operation of the user
User(s) == [s EXCEPT !.calls = @ - 1]

\* a message of the host can be dispatched: no macrotask is running, or the
\* running one is a batch of host messages
CanDispatch == microtasks = <<>> \/ rpc

\* the state after the handler of a host message has run
Dispatch(s) == [s EXCEPT !.rpc = TRUE]

\* the user opens a note from the tree view
Open(p) ==
    /\ CanDispatch
    /\ \E found \in BOOLEAN :
          Commit(Dispatch(User(openEncryptedFileCommand(Cur, p, found))))

\* the passphrase prompt is answered
UnlockReply(m, outcome) ==
    /\ CanDispatch
    /\ Commit(Dispatch(unlockPrompted(Resume(Cur, m), m, outcome)))

\* the user runs the unlock command
UnlockCommand ==
    /\ CanDispatch
    /\ \E found \in BOOLEAN :
          Commit(Dispatch(User(unlockCommand(Cur, found))))

\* the user runs the lock command
LockCommand ==
    /\ CanDispatch
    /\ Commit(Dispatch(User(lockCommand(Cur))))

\* the host has shown the document
FocusReply(m) ==
    /\ CanDispatch
    /\ Commit(Dispatch(focusFileDone(Resume(Cur, m), m)))

\* the user edits the document of an open tab and saves it
HostSave(t) ==
    /\ tabs[t]
    /\ Commit(User(hostSave(Cur, t)))

\* the user closes the tab
HostCloseTab(t) ==
    /\ tabs[t]
    /\ Commit(User(closeEditorTabs(Cur, t)))

\* dispatch of onDidSaveTextDocument, to the listener of the manager in
\* service (dispose has disposed those of the managers before)
SaveEvent(t) ==
    /\ t \in saveNotif
    /\ CanDispatch
    /\ LET s == [Cur EXCEPT !.saveNotif = @ \ {t}]
       IN  Commit(Dispatch(IF t \in Own(s)
                           THEN onDidSaveTextDocument(s, t) ELSE s))

\* dispatch of the watcher's onDidChange; a disposed watcher is silent
WatchEvent(t) ==
    /\ t \in watchNotif
    /\ CanDispatch
    /\ LET s == [Cur EXCEPT !.watchNotif = @ \ {t}]
       IN  Commit(Dispatch(IF \E w \in watchers : w[1] = t
                           THEN debouncedSave(s, t) ELSE s))

\* dispatch of onDidChangeTabs with the tab among the closed ones
TabsEvent(t) ==
    /\ t \in tabClosed
    /\ CanDispatch
    /\ LET s == [Cur EXCEPT !.tabClosed = @ \ {t}]
       IN  Commit(Dispatch(IF t \in Own(s)
                           THEN handleTabsChanged(s, t) ELSE s))

\* dispatch of onDidCloseTextDocument
DocClosedEvent(t) ==
    /\ t \in docClosed
    /\ CanDispatch
    /\ LET s == [Cur EXCEPT !.docClosed = @ \ {t}]
       IN  Commit(Dispatch(IF t \in Own(s)
                           THEN handleDocumentClosed(s, t) ELSE s))

\* Timers fire only once the microtask queue is drained.
DebounceTimeout(t) ==
    /\ microtasks = <<>>
    /\ t \in pendingFiles
    /\ Commit(debounceTimeout(Cur, t))

DocumentClosedTimeout(t) ==
    /\ microtasks = <<>>
    /\ closeTimers[t] > 0
    /\ Commit(documentClosedTimeout(Cur, t))

\* the 200 ms wait of cleanupTempFileAsync is over
CleanupWaitTimeout(m) ==
    /\ microtasks = <<>>
    /\ Commit(cleanupFlush(Resume(Cur, m), m.st, m.origin))

\* the 100 ms wait of saveAndCloseBeforeMove is over
SettleTimeout(m) ==
    /\ microtasks = <<>>
    /\ Commit(saveAndCloseFlush(Resume(Cur, m), m.st))

\* the session timeout fires: lock()
SessionTimeout ==
    /\ microtasks = <<>>
    /\ \E d \in BagToSet(timers) : Commit(sessionTimeoutCallback(Cur, d))

\* doc.save() of saveAndCloseBeforeMove resolves
DocSaveReply(m) ==
    /\ CanDispatch
    /\ Commit(Dispatch(docSaveDone(Resume(Cur, m), m)))

\* the head of the microtask queue runs
RunMicrotask ==
    /\ microtasks # <<>>
    /\ Commit(runTask([Cur EXCEPT !.microtasks = Tail(@)], Head(microtasks)))

\* a saveAndCloseBeforeMove of the note has not returned yet
Moving(p) ==
    \/ \E i \in 1..Len(microtasks) :
          /\ microtasks[i].by = "saveAndCloseBeforeMove"
          /\ microtasks[i].st.encryptedPath = p
    \/ \E m \in BagToSet(waiting) :
          /\ m.by = "saveAndCloseBeforeMove"
          /\ m.st.encryptedPath = p

\* the mover calls saveAndCloseBeforeMove before it moves the envelope of a
\* note of the tree, one move of a note at a time
Move(p, isDirty) ==
    /\ encFile[p] # NoFile
    /\ ~Moving(p)
    /\ findByEncryptedPath(Cur, p) # NoState
    /\ CanDispatch
    /\ Commit(Dispatch(User(saveAndCloseBeforeMove(Cur, p, isDirty))))

\* the delete and rename commands: onFileMovedOrDeleted, then the envelope
\* leaves its path
DeleteOrRename(p) ==
    /\ encFile[p] # NoFile
    /\ CanDispatch
    /\ Commit(Dispatch(User(
          [onFileMovedOrDeleted(Cur, p) EXCEPT !.encFile[p] = NoFile])))

Next ==
    \/ \E p \in Paths : Open(p)
    \/ \E m \in Suspended("unlock"), outcome \in {"ok", "refused"} :
          UnlockReply(m, outcome)
    \/ UnlockCommand
    \/ LockCommand
    \/ \E m \in Suspended("focusFile") : FocusReply(m)
    \/ \E t \in TempPaths : HostSave(t)
    \/ \E t \in TempPaths : HostCloseTab(t)
    \/ \E t \in TempPaths : SaveEvent(t)
    \/ \E t \in TempPaths : WatchEvent(t)
    \/ \E t \in TempPaths : TabsEvent(t)
    \/ \E t \in TempPaths : DocClosedEvent(t)
    \/ \E t \in TempPaths : DebounceTimeout(t)
    \/ \E t \in TempPaths : DocumentClosedTimeout(t)
    \/ \E m \in Suspended("cleanupWait") : CleanupWaitTimeout(m)
    \/ \E m \in Suspended("settle") : SettleTimeout(m)
    \/ SessionTimeout
    \/ \E m \in Suspended("docSave") : DocSaveReply(m)
    \/ RunMicrotask
    \/ \E p \in Paths, isDirty \in BOOLEAN : Move(p, isDirty)
    \/ \E p \in Paths : DeleteOrRename(p)

\* The runs of at most MaxCalls operations of the user.
Spec == Init /\ [][Next]_vars

\* The event loop runs every queued continuation, the host delivers every
\* notification and answers every request, and every armed timer of the
\* manager fires.  The user and the session timeout are under no obligation.
FairSpec ==
    /\ Start(MaxFairCalls)
    /\ [][Next]_vars
    /\ WF_vars(RunMicrotask)
    /\ WF_vars(\E t \in TempPaths : SaveEvent(t))
    /\ WF_vars(\E t \in TempPaths : WatchEvent(t))
    /\ WF_vars(\E t \in TempPaths : TabsEvent(t))
    /\ WF_vars(\E t \in TempPaths : DocClosedEvent(t))
    /\ WF_vars(\E t \in TempPaths : DebounceTimeout(t))
    /\ WF_vars(\E t \in TempPaths : DocumentClosedTimeout(t))
    /\ WF_vars(\E m \in Suspended("cleanupWait") : CleanupWaitTimeout(m))
    /\ WF_vars(\E m \in Suspended("settle") : SettleTimeout(m))
    /\ WF_vars(\E m \in Suspended("docSave") : DocSaveReply(m))
    /\ WF_vars(\E m \in Suspended("focusFile") : FocusReply(m))

\* the macrotask that ran handler state s has ended
After(s) == [s EXCEPT !.rpc = (s.rpc /\ s.microtasks # <<>>)]

\* The user opens note p, gives the passphrase when prompted, and the host
\* shows the decrypted document: the open command, the reply to the prompt,
\* the continuation of unlock and of the open, and the reply to focusFile.
Shown(s, p) ==
    LET s1 == After(Dispatch(User(openEncryptedFileCommand(s, p, TRUE))))
        m1 == CHOOSE m \in BagToSet(s1.waiting) : m.k = "unlock"
        s2 == After(Dispatch(unlockPrompted(Resume(s1, m1), m1, "ok")))
        s3 == After(runTask([s2 EXCEPT !.microtasks = Tail(@)],
                            Head(s2.microtasks)))
        m3 == CHOOSE m \in BagToSet(s3.waiting) : m.k = "focusFile"
    IN  After(Dispatch(focusFileDone(Resume(s3, m3), m3)))

\* The state four operations into one run: the note is opened and shown, it
\* is edited and moved in the tree view (the move awaits the save of its
\* document), the session is locked by the lock command, and the note is
\* opened and shown again by the new manager.
ReopenedDuringMove(budget) ==
    LET p  == CHOOSE q \in Paths : TRUE
        s1 == Shown(Fresh(budget + 4), p)
        s2 == After(Dispatch(User(saveAndCloseBeforeMove(s1, p, TRUE))))
        s3 == After(Dispatch(User(lockCommand(s2))))
    IN  Shown(s3, p)

\* The runs that continue that state with at most MaxDeepCalls further
\* operations of the user.
DeepSpec == Resumes(ReopenedDuringMove(MaxDeepCalls)) /\ [][Next]_vars

\* The state two operations into one run: the note is opened and shown and
\* the user closes its tab; the notification of the closed tab has started
\* the cleanup of the record, which awaits its final re-encryption.
ClosingTab(budget) ==
    LET p  == CHOOSE q \in Paths : TRUE
        s1 == Shown(Fresh(budget + 2), p)
        t  == createTempPath(s1.tempDir, p)
        s2 == After(User(closeEditorTabs(s1, t)))
    IN  After(Dispatch(handleTabsChanged(
                  [s2 EXCEPT !.tabClosed = @ \ {t}], t)))

\* The runs that continue that state with at most MaxClosingCalls further
\* operations of the user.
ClosingSpec == Resumes(ClosingTab(MaxClosingCalls)) /\ [][Next]_vars

\* --------------------------------------------- notes of one temp file name

\* The user also opens the note of SamePrefix.
SharedNext ==
    \/ Next
    \/ \E p \in SamePrefix : Open(p)

\* The runs of at most MaxSharedCalls operations of the user on the two notes.
SharedSpec == Start(MaxSharedCalls) /\ [][SharedNext]_vars

\* ------------------------------------------------------ the session, timed

\* The minutes a run of TimedSpec lasts, and the commands of the user in it.
MaxTime == 6
MaxTimedCalls == 2

\* values of the setting: disabled, and two delays
TimeoutChoices == {0, 2, 3}

\* the envelopes decrypted in TimedSpec: one as encrypt made it, one with
\* another authTag, one with another hmac
TimedEnvelopes ==
    {encrypt(0), [encrypt(0) EXCEPT !.authTag = 0],
     [encrypt(0) EXCEPT !.hmac = <<0>>]}

\* a call of NotepadEncryption.encrypt, as the session sees it
encryptEffect(s, plaintext) ==
    LET r == encryptCall(s, plaintext)
        s1 == IF r.error = ""
              THEN recordActivity([s EXCEPT !.hist.active = s.now]) ELSE s
    IN  [s1 EXCEPT !.last = [op |-> "encrypt", envelope |-> r.value,
                             error |-> r.error, compared |-> FALSE,
                             cipher |-> r.error = "", value |-> plaintext]]

\* a call of NotepadEncryption.decrypt, as the session sees it
decryptEffect(s, encrypted) ==
    LET r == decryptCall(s, encrypted)
        s1 == IF r.activity THEN recordActivity(s) ELSE s
        s2 == IF r.error = "" THEN [s1 EXCEPT !.hist.active = s.now] ELSE s1
    IN  [s2 EXCEPT !.last = [op |-> "decrypt", envelope |-> encrypted,
                             error |-> r.error, compared |-> r.compared,
                             cipher |-> r.cipher, value |-> r.value]]

\* the listener of onDidChangeConfiguration, on a change of
\* sessionTimeoutMinutes
configurationChanged(s, minutes) ==
    resetSessionTimeout([s EXCEPT !.timeoutMinutes = minutes,
                                  !.hist.changed = s.now])

Encrypt(plaintext) ==
    /\ microtasks = <<>>
    /\ Commit(encryptEffect(Cur, plaintext))

Decrypt(encrypted) ==
    /\ microtasks = <<>>
    /\ Commit(decryptEffect(Cur, encrypted))

\* the user changes the setting
ConfigChange(minutes) ==
    /\ minutes # timeoutMinutes
    /\ CanDispatch
    /\ Commit(Dispatch(configurationChanged(Cur, minutes)))

\* A minute passes.  A timer that is due fires before the next minute, and
\* queued continuations run within the minute.
Tick ==
    /\ now < MaxTime
    /\ microtasks = <<>>
    /\ \A d \in BagToSet(timers) : d > now
    /\ Commit([Cur EXCEPT !.now = @ + 1])

\* a session timer whose delay has elapsed fires
TimeoutDue ==
    /\ microtasks = <<>>
    /\ \E d \in BagToSet(timers) :
          /\ d <= now
          /\ Commit(sessionTimeoutCallback(Cur, d))

TimedNext ==
    \/ UnlockCommand
    \/ \E m \in Suspended("unlock"), outcome \in {"ok", "refused"} :
          UnlockReply(m, outcome)
    \/ RunMicrotask
    \/ LockCommand
    \/ Encrypt(0)
    \/ \E e \in TimedEnvelopes : Decrypt(e)
    \/ \E minutes \in TimeoutChoices : ConfigChange(minutes)
    \/ Tick
    \/ TimeoutDue

\* The session with a clock: the runs of MaxTime minutes, from a locked
\* session with any of the settings.
TimedSpec ==
    /\ \E minutes \in TimeoutChoices :
          Resumes([Fresh(MaxTimedCalls) EXCEPT !.timeoutMinutes = minutes])
    /\ [][TimedNext]_vars

\* ------------------------------------------------- the storage, on any path

WriteSecureFile(filePath, content) ==
    /\ microtasks = <<>>
    /\ Commit(writeSecureFile(Cur, filePath, content))

ReadSecureFile(filePath) ==
    /\ microtasks = <<>>
    /\ Commit(readSecureFile(Cur, filePath))

DeleteSecureFile(filePath) ==
    /\ microtasks = <<>>
    /\ Commit(deleteSecureFile(Cur, filePath))

StorageNext ==
    \/ \E p \in StoragePaths, content \in {0, 1} :
          WriteSecureFile(p, content)
    \/ \E p \in StoragePaths : ReadSecureFile(p)
    \/ \E p \in StoragePaths : DeleteSecureFile(p)

\* The storage alone, after its construction: the session directory is
\* empty, and each of the other files exists or does not.
StorageSpec ==
    /\ \E d \in [DiskFiles -> {Absent, 2}] :
          /\ d[Append(storageDir, <<"f">>)] = Absent
          /\ Resumes([Fresh(0) EXCEPT !.disk = d])
    /\ [][StorageNext]_vars

\* ---------------------------------------------------- the debounced handler

\* the ms of a tick of the clock of DebounceSpec
TickMs == 50

\* the watcher of a file reports a change: debouncedSave is called
OnDidChange(filePath) ==
    /\ microtasks = <<>>
    /\ \/ debouncer.pendingFiles[filePath] = Absent
       \/ debouncer.burst[filePath] < MaxBurst
    /\ Commit(debounced(Cur, filePath, SAVE_DEBOUNCE_MS))

\* a timer of the debouncer whose delay has elapsed fires
DebounceDue ==
    /\ microtasks = <<>>
    /\ \E timeout \in BagToSet(debouncer.timeouts) :
          /\ timeout[2] <= now
          /\ Commit(debouncedCallback(Cur, timeout))

\* A tick passes.  A timer that is due fires before the next tick.
DebounceTick ==
    /\ now < MaxDebounceTicks * TickMs
    /\ \A timeout \in BagToSet(debouncer.timeouts) : timeout[2] > now
    /\ Commit([Cur EXCEPT !.now = @ + TickMs])

DebounceNext ==
    \/ \E f \in DebouncePaths : OnDidChange(f)
    \/ DebounceDue
    \/ DebounceTick

\* The debounced handler of a manager alone, with a clock.
DebounceSpec == Start(0) /\ [][DebounceNext]_vars

\* ------------------------------------------------------ the private key file

\* the permissions the key file is given: 0600, 0644 and 0400
KeyModes == {RegularFile + PRIVATE, RegularFile + READABLE, RegularFile + 256}

\* a call of loadPrivateKey that is not made by unlock
loadPrivateKeyEffect(s, accepted) ==
    [loadPrivateKey(s, accepted) EXCEPT
        !.last = [NoCall EXCEPT !.op = "loadPrivateKey",
                                !.error = loadPrivateKeyError(s, accepted)]]

LoadPrivateKey(accepted) ==
    /\ microtasks = <<>>
    /\ Commit(loadPrivateKeyEffect(Cur, accepted))

\* the permissions of the key file are changed (chmod)
Chmod(mode) ==
    /\ mode # keyMode
    /\ Commit([Cur EXCEPT !.keyMode = mode])

KeyNext ==
    \/ UnlockCommand
    \/ \E m \in Suspended("unlock"), outcome \in {"ok", "refused"} :
          UnlockReply(m, outcome)
    \/ RunMicrotask
    \/ LockCommand
    \/ \E accepted \in BOOLEAN : LoadPrivateKey(accepted)
    \/ \E mode \in KeyModes : Chmod(mode)

\* The session and the key file: any platform, any permissions at the
\* start, and the permissions change at any moment.
KeySpec ==
    /\ \E pf \in {"linux", "win32"}, mode \in KeyModes :
          Resumes([Fresh(MaxEngineCalls) EXCEPT !.platform = pf,
                                                !.keyMode = mode])
    /\ [][KeyNext]_vars

\* ------------------------------------------------- the engine, on any file

\* the contents encrypted
Plaintexts == {0, 1}

\* The files handed to decrypt: an envelope of encrypt, with the version of
\* a legacy file or this version; with no hmac, the digest, another digest
\* or a value that does not decode to the length of a digest; with its
\* authTag or another; with its wrapped key or another.
Envelopes ==
    UNION {{[encrypt(n) EXCEPT !.version = v, !.hmac = h, !.authTag = a,
                               !.encryptedKey = k] :
               v \in {1, ENCRYPTION_VERSION},
               h \in {<<>>, Mac(Cipher(n)), <<0>>, <<0, 0>>},
               a \in {GcmTag(Iv, Cipher(n)), 0}, k \in {WrappedKey, 0}} :
           n \in Plaintexts}

EngineNext ==
    \/ UnlockCommand
    \/ \E m \in Suspended("unlock"), outcome \in {"ok", "refused"} :
          UnlockReply(m, outcome)
    \/ RunMicrotask
    \/ LockCommand
    \/ \E n \in Plaintexts : Encrypt(n)
    \/ \E e \in Envelopes : Decrypt(e)

\* The engine alone: a session that is unlocked and locked, and calls of
\* encrypt and decrypt on any of the files.
EngineSpec == Start(MaxEngineCalls) /\ [][EngineNext]_vars

\* The envelopes of encrypt after a change of their content, their hmac or
\* both in the file: the content of another plaintext; another digest, a
\* value of another length, or the field removed.
Altered ==
    UNION {{[encrypt(n) EXCEPT !.content = c, !.hmac = h] :
               c \in {Cipher(m) : m \in Plaintexts},
               h \in {Mac(Cipher(n)), <<0>>, <<0, 0>>, <<>>}} :
           n \in Plaintexts}

AlteredNext ==
    \/ EngineNext
    \/ \E e \in Altered : Decrypt(e)

\* The engine, on the files of encrypt and on altered ones.
AlteredSpec == Start(MaxEngineCalls) /\ [][AlteredNext]_vars

\* ------------------------------------------------- the engine, on buffers

\* The buffers handed to encrypt, as sequences of bytes: the empty buffer
\* and those of up to MaxBufferLen bytes of the values 0 and 255, so that
\* every padding of base64 and a second group of it occur.
Buffers == UNION {[1..n -> {0, 255}] : n \in 0..MaxBufferLen}

\* buf.toString('base64'): three bytes give four digits of six bits, and
\* the last group is padded (64 stands for '=')
RECURSIVE toBase64(_)
toBase64(buf) ==
    IF buf = <<>> THEN <<>>
    ELSE LET k == IF Len(buf) < 3 THEN Len(buf) ELSE 3
             n == buf[1] * 65536 + (IF k >= 2 THEN buf[2] ELSE 0) * 256
                    + (IF k = 3 THEN buf[3] ELSE 0)
         IN  << n \div 262144, (n \div 4096) % 64,
                IF k >= 2 THEN (n \div 64) % 64 ELSE 64,
                IF k = 3 THEN n % 64 ELSE 64 >>
             \o toBase64(SubSeq(buf, k + 1, Len(buf)))

\* a decoder that stops after the first group of four digits
fromBase64OneGroup(string) ==
    LET digits == SelectSeq(string, LAMBDA d : d # 64)
        k == IF Len(digits) < 4 THEN Len(digits) ELSE 4
        n == (IF k >= 1 THEN digits[1] ELSE 0) * 262144
               + (IF k >= 2 THEN digits[2] ELSE 0) * 4096
               + (IF k >= 3 THEN digits[3] ELSE 0) * 64
               + (IF k = 4 THEN digits[4] ELSE 0)
    IN  IF k < 2 THEN <<>>
        ELSE << n \div 65536 >>
             \o (IF k >= 3 THEN << (n \div 256) % 256 >> ELSE <<>>)
             \o (IF k = 4 THEN << n % 256 >> ELSE <<>>)

\* Buffer.from(string, 'base64'): four digits give three bytes, fewer where
\* the group is padded or short
RECURSIVE fromBase64(_)
fromBase64(string) ==
    LET digits == SelectSeq(string, LAMBDA d : d # 64)
        k == IF Len(digits) < 4 THEN Len(digits) ELSE 4
        n == (IF k >= 1 THEN digits[1] ELSE 0) * 262144
               + (IF k >= 2 THEN digits[2] ELSE 0) * 4096
               + (IF k >= 3 THEN digits[3] ELSE 0) * 64
               + (IF k = 4 THEN digits[4] ELSE 0)
    IN  IF k < 2 THEN <<>>
        ELSE << n \div 65536 >>
             \o (IF k >= 3 THEN << (n \div 256) % 256 >> ELSE <<>>)
             \o (IF k = 4 THEN << n % 256 >> ELSE <<>>)
             \o fromBase64(SubSeq(digits, k + 1, Len(digits)))

\* NotepadEncryption.encrypt on a buffer.  The cipher adds the key stream
\* to each byte; one byte stands for the tag and one for the digest, both
\* taken from the ciphertext.
encryptBuffer(plaintext) ==
    LET encrypted == [i \in 1..Len(plaintext) |-> (plaintext[i] + 100) % 256]
        first == IF encrypted = <<>> THEN 0 ELSE encrypted[1]
    IN  [version |-> ENCRYPTION_VERSION,
         encryptedKey |-> toBase64(<<WrappedKey>>),
         iv |-> toBase64(<<Iv>>),
         authTag |-> toBase64(<<(first + Len(encrypted) + Iv) % 256>>),
         content |-> toBase64(encrypted),
         hmac |-> toBase64(<<(first + 2 * Len(encrypted) + 7) % 256>>)]

\* NotepadEncryption.decrypt on an envelope of base64 strings, in a session
\* that holds the private key: the error thrown ("" for none) and the
\* buffer returned
decryptBuffer(encrypted) ==
    LET encryptedContent == fromBase64(encrypted.content)
        first == IF encryptedContent = <<>> THEN 0 ELSE encryptedContent[1]
        expectedHmac == <<(first + 2 * Len(encryptedContent) + 7) % 256>>
        tag == <<(first + Len(encryptedContent)
                    + fromBase64(encrypted.iv)[1]) % 256>>
    IN  IF fromBase64(encrypted.encryptedKey) # <<WrappedKey>>
        THEN [error |-> "DecryptionFailed", value |-> <<>>]
        ELSE IF /\ encrypted.hmac # <<>> /\ encrypted.version >= 2
                /\ timingSafeEqual(expectedHmac, fromBase64(encrypted.hmac))
                       = "RangeError"
        THEN [error |-> "DecryptionFailed", value |-> <<>>]
        ELSE IF /\ encrypted.hmac # <<>> /\ encrypted.version >= 2
                /\ timingSafeEqual(expectedHmac, fromBase64(encrypted.hmac))
                       = "differ"
        THEN [error |-> "IntegrityCheckFailed", value |-> <<>>]
        ELSE IF fromBase64(encrypted.authTag) # tag
        THEN [error |-> "DecryptionFailed", value |-> <<>>]
        ELSE [error |-> "",
              value |-> [i \in 1..Len(encryptedContent) |->
                            (encryptedContent[i] + 156) % 256]]

\* decryptFile on the text of a file: JSON.parse, then decrypt.  The text
\* of JSON.stringify is the sequence of the members, name and value.
decryptFileBuffer(content) ==
    LET member(name) ==
            (CHOOSE i \in 1..Len(content) : content[i][1] = name)
        encrypted ==
            [version |-> content[member("version")][2],
             encryptedKey |-> content[member("encryptedKey")][2],
             iv |-> content[member("iv")][2],
             authTag |-> content[member("authTag")][2],
             content |-> content[member("content")][2],
             hmac |-> content[member("hmac")][2]]
    IN  decryptBuffer(encrypted)

\* a call of encrypt on a buffer
EncryptBuffer(plaintext) ==
    /\ microtasks = <<>>
    /\ Commit(
          LET s1 == IF publicKey THEN recordActivity(Cur) ELSE Cur
          IN  [s1 EXCEPT !.last =
                  [op |-> "encrypt",
                   envelope |-> IF publicKey THEN encryptBuffer(plaintext)
                                ELSE NoFile,
                   error |-> IF publicKey THEN "" ELSE "NotUnlocked",
                   compared |-> FALSE, cipher |-> publicKey,
                   value |-> plaintext]])

\* a call of decrypt on the envelope a call of encrypt returned
DecryptBuffer ==
    /\ microtasks = <<>>
    /\ last.op = "encrypt" /\ last.error = ""
    /\ Commit(
          LET r == IF privateKey THEN decryptBuffer(last.envelope)
                   ELSE [error |-> "NotUnlocked", value |-> <<>>]
              s1 == IF r.error = "" THEN recordActivity(Cur) ELSE Cur
          IN  [s1 EXCEPT !.last =
                  [op |-> "decrypt", envelope |-> last.envelope,
                   error |-> r.error, compared |-> r.error = "",
                   cipher |-> r.error = "", value |-> r.value]])

\* encryptFile(sourcePath, destPath): readFileSync, encrypt, JSON.stringify
\* and writeFileSync; a throw of encrypt leaves the destination as it was
EncryptFileBuffer(sourcePath, destPath) ==
    /\ microtasks = <<>>
    /\ disk[sourcePath] # <<Absent>>
    /\ Commit(
          LET encrypted == encryptBuffer(disk[sourcePath])
              text == << <<"version", encrypted.version>>,
                         <<"encryptedKey", encrypted.encryptedKey>>,
                         <<"iv", encrypted.iv>>,
                         <<"authTag", encrypted.authTag>>,
                         <<"content", encrypted.content>>,
                         <<"hmac", encrypted.hmac>> >>
              s1 == IF publicKey
                    THEN [recordActivity(Cur) EXCEPT !.disk[destPath] = text]
                    ELSE Cur
          IN  [s1 EXCEPT !.last =
                  [op |-> "encryptFile",
                   envelope |-> IF publicKey THEN encrypted ELSE NoFile,
                   error |-> IF publicKey THEN "" ELSE "NotUnlocked",
                   compared |-> FALSE, cipher |-> publicKey,
                   value |-> disk[sourcePath]]])

\* decryptFile(encryptedPath): readFileSync, JSON.parse and decrypt
DecryptFileBuffer(encryptedPath) ==
    /\ microtasks = <<>>
    /\ disk[encryptedPath] # <<Absent>>
    /\ Commit(
          LET r == IF privateKey THEN decryptFileBuffer(disk[encryptedPath])
                   ELSE [error |-> "NotUnlocked", value |-> <<>>]
              s1 == IF r.error = "" THEN recordActivity(Cur) ELSE Cur
          IN  [s1 EXCEPT !.last =
                  [op |-> "decryptFile", envelope |-> NoFile,
                   error |-> r.error, compared |-> r.error = "",
                   cipher |-> r.error = "", value |-> r.value]])

\* The engine on buffers and files: a source file of any of the buffers, a
\* session that is unlocked and locked, and calls of encrypt, decrypt,
\* encryptFile and decryptFile.  The content of a file is a sequence here,
\* <<Absent>> that of a file that does not exist.
BufferSpec ==
    /\ \E plaintext \in Buffers :
          Resumes([Fresh(MaxBufferCalls) EXCEPT
                      !.disk = [f \in DiskFiles |->
                                  IF f = Append(storageDir, <<"f">>)
                                  THEN plaintext ELSE <<Absent>>]])
    /\ [][\/ UnlockCommand
          \/ \E m \in Suspended("unlock"), outcome \in {"ok", "refused"} :
                UnlockReply(m, outcome)
          \/ RunMicrotask
          \/ LockCommand
          \/ \E plaintext \in Buffers : EncryptBuffer(plaintext)
          \/ DecryptBuffer
          \/ EncryptFileBuffer(Append(storageDir, <<"f">>),
                               Append(basePath, <<"o">>))
          \/ DecryptFileBuffer(Append(basePath, <<"o">>))]_vars

\* ------------------------------------------------------------- properties

\* What a step was, read from the two states.  The head of the microtask
\* queue ran: only that shortens the queue or changes it at equal length.
Ran ==
    /\ microtasks # <<>>
    /\ \/ Len(microtasks') < Len(microtasks)
       \/ Len(microtasks') = Len(microtasks) /\ microtasks' # microtasks

\* An invocation of reEncryptFile began: only that lengthens the queue.
Started == Len(microtasks') > Len(microtasks)

\* the invocation of reEncryptFile that began in the step
Begun == microtasks'[Len(microtasks')]

\* the plaintext an envelope holds
PlainOf(e) == e.content - 100

\* the suspended invocation m of the bag resumed in the step
Resumed(m) == CopiesIn(m, waiting') < CopiesIn(m, waiting)

\* C1: a close-triggered cleanup (tab close, document close) erases the
\* plaintext only when the envelope of the note holds the very content that
\* is erased: the last edit has been re-encrypted before the erase.
C1_CloseErasesOnlyPersisted ==
    [][\A t \in TempPaths :
          ( /\ Ran
            /\ Head(microtasks).k = "cleanupTempFileAsync"
            /\ Head(microtasks).origin \in {"tab", "doc"}
            /\ Head(microtasks).t = t
            /\ tempFiles[t] # NoState
            /\ plainFile[t] # Absent
            /\ plainFile'[t] = Absent
            /\ encFile[tempFiles[t].encryptedPath] # NoFile )
          => PlainOf(encFile[tempFiles[t].encryptedPath]) = plainFile[t]]_vars

\* C2: the forced final re-encryption of a close-triggered cleanup never
\* starts while another re-encryption of the same record is still in flight:
\* the cleanup has waited for it to finish.
C2_CleanupWaitsForInFlight ==
    [][( /\ Started
         /\ Begun.by = "cleanupTempFileAsync"
         /\ Begun.origin \in {"tab", "doc"} )
       => InFlight(Cur, Begun.t) = 0]_vars

\* C3: a save notification dispatched for a record while a re-encryption of
\* that record is in flight is not dropped: its handler leaves one more
\* re-encryption scheduled (a timer armed, an invocation begun or suspended).
C3_MidFlightNotificationKept ==
    [][\A t \in TempPaths :
          ( /\ t \in saveNotif
            /\ t \notin saveNotif'
            /\ tempFiles[t] # NoState
            /\ InFlight(Cur, t) > 0 )
          => \/ pendingFiles' # pendingFiles
             \/ Started
             \/ waiting' # waiting]_vars

\* C5: at every instant at most one re-encryption of a record is running,
\* whatever triggered it.
C5_AtMostOneReEncryption ==
    \A t \in TempPaths : InFlight(Cur, t) <= 1

\* C7: once the plaintext of a record has been erased, no re-encryption of
\* that record starts.
C7_NoReEncryptionAfterErase ==
    [][Started => Begun.st.gen \notin hist.erased]_vars

\* C9: the plaintext of a record is destroyed once: a trigger of a record
\* that has already been erased and dropped (a cleanup or a
\* saveAndCloseBeforeMove that resumes or completes afterwards) changes no
\* file and no record.
C9_ErasedOnceOthersNoEffect ==
    [][( \/ /\ Ran
            /\ Head(microtasks).k \in
                   {"cleanupTempFileAsync", "saveAndCloseBeforeMove"}
            /\ Head(microtasks).st.gen \in hist.erased
         \/ \E m \in BagToSet(waiting) :
               /\ m.k \in {"cleanupWait", "settle"}
               /\ m.st.gen \in hist.erased
               /\ Resumed(m) )
       => /\ tempFiles' = tempFiles
          /\ plainFile' = plainFile
          /\ encFile' = encFile]_vars

\* C10: when an exit operation (the cleanup of a close, a deletion or a
\* rename; saveAndCloseBeforeMove of a move) has run to completion, the
\* record is gone and no plaintext file is left at its path.
C10_ExitLeavesNothing ==
    [][( /\ Ran
         /\ Head(microtasks).k \in
                {"cleanupTempFileAsync", "saveAndCloseBeforeMove"} )
       => /\ tempFiles'[Head(microtasks).t] = NoState
          /\ plainFile'[Head(microtasks).t] = Absent]_vars

\* C6: re-encryptions of a note are never reordered: the envelope at an
\* encryptedPath never holds an edit older than one persisted there before.
C6_NoReorder ==
    \A p \in Paths :
        encFile[p] # NoFile => PlainOf(encFile[p]) >= hist.persisted[p]

\* the user opened a note in the step: the invocation m was suspended
OpenedAs(m) ==
    /\ calls' < calls
    /\ m.origin = "open"
    /\ CopiesIn(m, waiting') > CopiesIn(m, waiting)

Failing ==
    \E i \in 1..Len(microtasks) :
        microtasks[i].k = "reEncryptFile" /\ microtasks[i].c = Absent

\* C4: if no re-encryption ever fails then (the writes of a run being
\* finitely many) from some point on the envelope of every record that is
\* open is the encryption of its plaintext: a record that stays open does
\* not keep its final edit unpersisted.
C4_FinalEditPersisted ==
    []~Failing
    => <>[](\A t \in TempPaths :
              tempFiles[t] # NoState
              => encFile[tempFiles[t].encryptedPath] = encrypt(plainFile[t]))

\* C4, its case: a record is open, its plaintext holds an edit, and the
\* envelope is the encryption of that edit.
C4_Witness ==
    \E t \in TempPaths :
        /\ tempFiles[t] # NoState
        /\ plainFile[t] >= 1
        /\ publicKey
        /\ encFile[tempFiles[t].encryptedPath] = encrypt(plainFile[t])

\* C11: while the session is Locked, whatever locked it, there is no record
\* and no plaintext file in a session directory.
C11_NothingWhileLocked ==
    ~isUnlocked
    => \A t \in TempPaths : tempFiles[t] = NoState /\ plainFile[t] = Absent

\* C12: dispose flushes before it erases: when a manager is disposed of, the
\* envelope of each of its records whose note still exists holds afterwards
\* the plaintext that the record had on disk.
C12_DisposeFlushesFirst ==
    [][tempDir' # tempDir
       => \A t \in Own(Cur) :
             ( /\ tempFiles[t] # NoState
               /\ plainFile[t] # Absent
               /\ encFile[tempFiles[t].encryptedPath] # NoFile )
             => encFile'[tempFiles[t].encryptedPath] = encrypt(plainFile[t])]_vars

\* C13: onFileMovedOrDeleted of a note that has a record closes the tabs of
\* its plaintext, and the forced final re-encryption of the cleanup it runs
\* starts only when no re-encryption of the record is in flight.
C13_MovedRunsCloseSequence ==
    [][( /\ Started
         /\ Begun.by = "cleanupTempFileAsync"
         /\ Begun.origin = "moved" )
       => /\ InFlight(Cur, Begun.t) = 0
          /\ calls' < calls => ~tabs'[Begun.t]]_vars

\* C14: saveAndCloseBeforeMove returns true only when its flush succeeded:
\* its re-encryption wrote an envelope, and the envelope of the note is the
\* encryption of the plaintext that is erased.
C14_MoveSuccessMeansFlushed ==
    [][( /\ Ran
         /\ Head(microtasks).k = "saveAndCloseBeforeMove"
         /\ saveAndCloseBeforeMoveReturns(Cur, Head(microtasks)) )
       => /\ Head(microtasks).c # Absent
          /\ plainFile[Head(microtasks).t] # Absent
             => encFile[Head(microtasks).st.encryptedPath] =
                   encrypt(plainFile[Head(microtasks).t])]_vars

\* the head of the queue belongs to a handleFileChange whose re-encryption
\* failed
FailedSave ==
    /\ microtasks # <<>>
    /\ Head(microtasks).by = "handleFileChange"
    /\ Head(microtasks).c = Absent

\* C15: a failed re-encryption of handleFileChange drops no record and erases
\* no plaintext, neither when it fails nor when its handler completes; the
\* handler leaves saveInProgress without the path, and a save notification
\* for a record whose path is not in saveInProgress starts a re-encryption.
C15_FailedSaveCanBeRetried ==
    [][/\ ( /\ Started
            /\ Begun.by = "handleFileChange"
            /\ Begun.c = Absent )
          => tempFiles' = tempFiles /\ plainFile' = plainFile
       /\ (Ran /\ FailedSave)
          => /\ tempFiles' = tempFiles
             /\ plainFile' = plainFile
             /\ Head(microtasks).k = "handleFileChange"
                => Head(microtasks).t \notin saveInProgress'
       /\ \A t \in Own(Cur) :
             ( /\ t \in saveNotif
               /\ t \notin saveNotif'
               /\ tempFiles[t] # NoState
               /\ t \notin saveInProgress )
             => Started /\ Begun.t = t]_vars

\* C15, its case: the re-encryption of a save failed (the engine was locked)
\* and the record and its plaintext are there.
C15_Witness ==
    /\ FailedSave
    /\ Head(microtasks).k = "handleFileChange"
    /\ tempFiles[Head(microtasks).t] # NoState
    /\ plainFile[Head(microtasks).t] >= 1

\* C16: an open whose decryption fails leaves nothing behind: no record, no
\* watcher, no plaintext file.  Stated of openEncryptedFile called in any
\* reachable state, and of the open that goes on after unlock returned true.
C16_FailedOpenLeavesNothing ==
    /\ [](\A p \in Paths :
            DecryptFails(Cur, p)
            => LET s == openDecrypt(Cur, tempDir, p)
               IN  /\ s.tempFiles = tempFiles
                   /\ s.watchers = watchers
                   /\ s.plainFile = plainFile)
    /\ [][( /\ Ran
            /\ Head(microtasks).k = "unlock"
            /\ Head(microtasks).origin = "open"
            /\ Head(microtasks).c = 1
            /\ DecryptFails(unlockDone(Cur, Head(microtasks)),
                            Head(microtasks).st.encryptedPath) )
          => /\ tempFiles' = tempFiles
             /\ watchers' = watchers
             /\ plainFile' = plainFile]_vars

\* C16, its case: unlock is about to return true to an open, and the
\* decryption of the note is going to fail.
C16_Witness ==
    /\ microtasks # <<>>
    /\ Head(microtasks).k = "unlock"
    /\ Head(microtasks).origin = "open"
    /\ Head(microtasks).c = 1
    /\ DecryptFails(unlockDone(Cur, Head(microtasks)),
                    Head(microtasks).st.encryptedPath)

\* C17: while the session is Locked every call of encrypt and of decrypt
\* fails with NotUnlocked.
C17_LockedFailsFast ==
    ~isUnlocked
    => \A n \in 0..edits :
          /\ encryptCall(Cur, n).error = "NotUnlocked"
          /\ decryptCall(Cur, encrypt(n)).error = "NotUnlocked"

\* C18: lock clears both keys, while Locked the decryption of an envelope
\* fails with NotUnlocked, and while Unlocked (again) it gives the plaintext
\* the envelope was made of.
C18_LockClearsUnlockRestores ==
    /\ [][(isUnlocked /\ ~isUnlocked') => (~publicKey' /\ ~privateKey')]_vars
    /\ [](\A n \in 0..edits :
            <<decryptCall(Cur, encrypt(n)).error,
              decryptCall(Cur, encrypt(n)).value>> =
                IF isUnlocked THEN <<"", n>>
                ELSE <<"NotUnlocked", Absent>>)

\* C18, its case: the session has been locked by the lock command and
\* unlocked again, and the envelope of a note holds an edit.
C18_Witness ==
    /\ tempDir > 1
    /\ isUnlocked
    /\ \E p \in Paths : encFile[p] # NoFile /\ PlainOf(encFile[p]) >= 1

\* C19: when unlock returns false the session is Locked, holds no key and
\* has no session timeout armed.
C19_FailedUnlockLeavesLocked ==
    [][( /\ Ran
         /\ Head(microtasks).k = "unlock"
         /\ Head(microtasks).c = 0 )
       => /\ ~isUnlocked'
          /\ ~publicKey'
          /\ ~privateKey'
          /\ ~sessionTimeoutHandle']_vars

\* C20: unlock returns true exactly when the session is Unlocked as it
\* returns, and then the session timeout is armed.
C20_UnlockReturnsState ==
    [][(Ran /\ Head(microtasks).k = "unlock")
       => /\ (Head(microtasks).c = 1) <=> isUnlocked'
          /\ Head(microtasks).c = 1 => sessionTimeoutHandle']_vars
\* C21: an Unlocked session with a positive timeout T is Locked, with its
\* keys cleared, once T has elapsed since the last activity (the unlock, or
\* the last successful encrypt or decrypt), and the timeout does not lock
\* it earlier; T is the setting in force since that activity.
C21_LocksAfterTimeout ==
    /\ [](isUnlocked /\ timeoutMinutes > 0 /\ hist.changed < hist.active
            => now <= hist.active + timeoutMinutes)
    /\ [][( /\ isUnlocked /\ ~isUnlocked' /\ tempDir' = tempDir
            /\ hist.changed < hist.active )
            => /\ now >= hist.active + timeoutMinutes
               /\ ~publicKey' /\ ~privateKey']_vars

\* a successful call of encrypt or of decrypt is the step
UsedSuccessfully ==
    \/ Encrypt(0) /\ encryptCall(Cur, 0).error = ""
    \/ \E e \in TimedEnvelopes : Decrypt(e) /\ decryptCall(Cur, e).error = ""

\* C22: every successful encrypt and decrypt sets lastActivity to the time
\* of the call and sets the timer for a full timeout from then; at most one
\* timer is pending, and it is due a full timeout after the most recent
\* successful operation (or the unlock), the setting unchanged since.
C22_TimerMeasuresFromLastUse ==
    /\ [][UsedSuccessfully
            => /\ lastActivity' = now
               /\ (isUnlocked /\ timeoutMinutes > 0)
                     => timers' = SetToBag({now + timeoutMinutes})]_vars
    /\ [](BagCardinality(timers) <= 1)
    /\ [](timers # EmptyBag /\ hist.changed < hist.active
            => timers = SetToBag({hist.active + timeoutMinutes}))

\* C23: while the setting is zero no session timer is pending, also right
\* after the setting changed to zero with a timer pending, and the session
\* is locked by the lock command only.
C23_ZeroMeansNoTimer ==
    /\ [](timeoutMinutes <= 0
            => timers = EmptyBag /\ ~sessionTimeoutHandle)
    /\ [][(timeoutMinutes <= 0 /\ isUnlocked /\ ~isUnlocked')
            => tempDir' # tempDir]_vars

\* C23, its case: the setting was changed to zero while the session was
\* Unlocked with a timer pending, and the session is still Unlocked after
\* the longest timeout has elapsed since its last activity.
C23_Witness ==
    /\ timeoutMinutes = 0
    /\ isUnlocked
    /\ hist.changed > hist.active
    /\ now > hist.active + 3

\* a reEncryptFile invocation has been called and has not returned
ReEncrypting ==
    \E i \in 1..Len(microtasks) : microtasks[i].k = "reEncryptFile"

\* C24: while a re-encryption is in flight a lock does not clear the keys.
C24_LockWaitsForReEncryption ==
    [][ReEncrypting
         => /\ publicKey => publicKey'
            /\ privateKey => privateKey']_vars

\* C24, as it holds: a lock requested while a re-encryption is in flight
\* clears the keys at once and writes nothing; the re-encryption in flight
\* has by then written the complete envelope of the plaintext it read, and
\* its completion writes nothing more.
C24_ReEncryptionWroteBeforeLock ==
    /\ [](\A i \in 1..Len(microtasks) :
            (microtasks[i].k = "reEncryptFile" /\ microtasks[i].c # Absent)
            => LET p == microtasks[i].st.encryptedPath
               IN  /\ hist.persisted[p] >= microtasks[i].c
                   /\ encFile[p] # NoFile
                        => encFile[p] = encrypt(PlainOf(encFile[p])))
    /\ [][(Ran /\ Head(microtasks).k = "reEncryptFile")
            => encFile' = encFile]_vars
    /\ [][(ReEncrypting /\ isUnlocked /\ ~isUnlocked')
            => ~publicKey' /\ ~privateKey' /\ encFile' = encFile]_vars

\* C24, its case: the session was locked while a re-encryption that wrote
\* an edit was in flight, and the envelope holds that edit.
C24_Witness ==
    \E i \in 1..Len(microtasks) :
        /\ microtasks[i].k = "reEncryptFile"
        /\ microtasks[i].c >= 1
        /\ ~publicKey /\ ~privateKey
        /\ encFile[microtasks[i].st.encryptedPath] = encrypt(microtasks[i].c)

\* unlock was called in the step (it suspended at its prompt), or it
\* resumed and returned
Unlocking ==
    \/ \E m \in BagToSet(waiting') :
          m.k = "unlock" /\ CopiesIn(m, waiting') > CopiesIn(m, waiting)
    \/ Ran /\ Head(microtasks).k = "unlock"

\* C25: the keys and the Locked/Unlocked state change only in a step of
\* unlock, of the lock command or of the session timeout: no operation of
\* the lifecycle manager, with the encryptFile and decryptFile calls it
\* makes, changes them.
C25_SingleWriter ==
    [][(publicKey' # publicKey \/ privateKey' # privateKey
          \/ isUnlocked' # isUnlocked)
        => Unlocking \/ LockCommand \/ SessionTimeout]_vars

\* C25, its case: a re-encryption has written an edit, through encryptFile,
\* and the session still holds both keys.
C25_Witness ==
    /\ \E p \in Paths : encFile[p] # NoFile /\ PlainOf(encFile[p]) >= 1
    /\ publicKey /\ privateKey /\ isUnlocked

\* A call of decrypt that went past the guard of the private key, on a file
\* whose AES key unwraps: the HMAC of the content can be recomputed.
DecryptedWithKey ==
    /\ last.op = "decrypt"
    /\ last.error # "NotUnlocked"
    /\ last.envelope.encryptedKey = WrappedKey

\* the file of the last call carries an hmac, and it is not the HMAC of its
\* content
HmacMismatch ==
    /\ last.envelope.hmac # <<>>
    /\ last.envelope.hmac # Mac(last.envelope.content)

\* C26: a decrypt of an envelope whose hmac is not the HMAC recomputed over
\* its content fails with IntegrityCheckFailed, and the call does not reach
\* the cipher decryption step.
C26_MismatchStopsBeforeCipher ==
    DecryptedWithKey /\ HmacMismatch
        => last.error = "IntegrityCheckFailed" /\ ~last.cipher

\* C27: the two failures of decrypt are told apart.  A hmac that does not
\* match, whatever its value, surfaces as IntegrityCheckFailed (never as
\* DecryptionFailed); an authentication tag that does not verify, on a file
\* whose hmac matches, surfaces as DecryptionFailed (never as
\* IntegrityCheckFailed).
C27_FailureKindsDisjoint ==
    /\ DecryptedWithKey /\ HmacMismatch
          => last.error = "IntegrityCheckFailed"
    /\ (/\ DecryptedWithKey
        /\ last.envelope.hmac = Mac(last.envelope.content)
        /\ last.envelope.authTag
               # GcmTag(last.envelope.iv, last.envelope.content))
          => last.error = "DecryptionFailed"

\* C28: a decrypt of a file that has an hmac recomputes and compares it
\* before the cipher step, whatever the version of the file: the cipher
\* step is reached only after a comparison that found the two equal, and
\* the comparison is left out only for a file without hmac.
C28_HmacVerifiedWhenPresent ==
    DecryptedWithKey =>
        /\ (last.envelope.hmac # <<>> /\ last.cipher)
              => /\ last.compared
                 /\ last.envelope.hmac = Mac(last.envelope.content)
        /\ ~last.compared => last.envelope.hmac = <<>>

\* the path leads to a file inside the session directory
LocatedInside(filePath) ==
    LET file == Resolved(<<>>, filePath)
    IN  /\ Len(file) > Len(storageDir)
        /\ SubSeq(file, 1, Len(storageDir)) = storageDir

\* C29: a read, write or delete through SecureTempStorage with a path that
\* does not lead inside the session directory is rejected and changes no
\* file, whether the target exists or not; so for a sibling whose name
\* starts with the name of the directory and for a path whose ".."
\* segments lead out of it.
C29_OutsidePathsRejected ==
    [][\A p \in StoragePaths :
          (/\ ~LocatedInside(p)
           /\ \/ \E content \in {0, 1} : WriteSecureFile(p, content)
              \/ ReadSecureFile(p)
              \/ DeleteSecureFile(p))
            => disk' = disk /\ io'.error = "outside"]_vars

\* the host is POSIX and the permission bits of the key file are not 0600
LaxKeyFile == platform # "win32" /\ keyMode % 512 # PRIVATE

\* C30: on a POSIX host the private key is not loaded while the key file
\* has other permissions than 0600: no step loads the key or unlocks the
\* session then, and a call of loadPrivateKey fails with the configuration
\* error and leaves the key and the session as they were.
C30_KeyNotLoadedWithLaxPermissions ==
    /\ [][(LaxKeyFile /\ keyMode' = keyMode)
            => /\ privateKey' => privateKey
               /\ isUnlocked' => isUnlocked]_vars
    /\ [][(LaxKeyFile /\ \E accepted \in BOOLEAN : LoadPrivateKey(accepted))
            => /\ last'.error = "NotConfigured"
               /\ privateKey' = privateKey
               /\ isUnlocked' = isUnlocked]_vars

\* C30, its case: on a POSIX host, loadPrivateKey has just refused a key
\* file with lax permissions, and the session is locked without a key.
C30_Witness ==
    /\ LaxKeyFile
    /\ last.op = "loadPrivateKey"
    /\ last.error = "NotConfigured"
    /\ ~privateKey
    /\ ~isUnlocked

\* C31: the change notifications of a file that follow one another within
\* the debounce window collapse into one call of the handler (the
\* re-encryption), which runs one window after the last of them; the
\* notifications of another file leave the timer of a file alone.
C31_BurstCollapses ==
    /\ [][\A f \in DebouncePaths :
            debouncer'.handled[f] > debouncer.handled[f]
            => now = debouncer.notified[f] + SAVE_DEBOUNCE_MS]_vars
    /\ [](\A f \in DebouncePaths :
            /\ debouncer.handled[f] <= 1
            /\ (debouncer.notified[f] # Absent
                /\ now > debouncer.notified[f] + SAVE_DEBOUNCE_MS)
               => debouncer.handled[f] = 1)
    /\ [][\A f \in DebouncePaths : \A g \in DebouncePaths \ {f} :
            OnDidChange(g)
            => /\ debouncer'.pendingFiles[f] = debouncer.pendingFiles[f]
               /\ debouncer'.handled[f] = debouncer.handled[f]
               /\ CopiesIn(<<f, debouncer.pendingFiles[f]>>,
                           debouncer'.timeouts)
                    = CopiesIn(<<f, debouncer.pendingFiles[f]>>,
                               debouncer.timeouts)]_vars

\* C31, its case: the handler of a file has run once after a burst of three
\* notifications, while the other file was notified as well.
C31_Witness ==
    /\ debouncer.handled["f"] = 1
    /\ debouncer.burst["f"] >= 3
    /\ debouncer.notified["g"] # Absent

\* C32: a save notification of a tracked plaintext path re-encrypts at once,
\* whatever the debounce: when its listener has run, the envelope of the
\* record is the encryption of the saved content.
C32_SaveReEncryptsAtOnce ==
    [][\A t \in TempPaths :
          (SaveEvent(t) /\ t \in Own(Cur) /\ tempFiles[t] # NoState)
          => encFile'[tempFiles[t].encryptedPath] = encrypt(plainFile[t])]_vars

\* C33: the plaintext path of a record is createTempPath of its encryptedPath
\* in the session directory (the same at every open of the path), and two
\* notes open at the same time share neither plaintext path nor record: an
\* open of one note never takes the record or the plaintext file of another.
C33_OnePlaintextPathPerNote ==
    /\ [](\A t \in Own(Cur) :
            tempFiles[t] # NoState
            => tempFiles[t].tempPath = createTempPath(tempDir, tempFiles[t].encryptedPath))
    /\ [][\A t \in Own(Cur) : \A p \in Paths \cup SamePrefix :
            (Open(p) /\ tempFiles[t] # NoState /\ tempFiles[t].encryptedPath # p)
            => /\ tempFiles'[t] = tempFiles[t]
               /\ plainFile'[t] = plainFile[t]]_vars

\* C34: an envelope of version 1 with no hmac field, made under the key pair
\* of the session, decrypts in an unlocked session without error to the
\* plaintext it was made of: the absent hmac is no integrity failure.
C34_LegacyEnvelopeDecrypts ==
    [][\A n \in Plaintexts :
          (Decrypt(encryptV1(n)) /\ isUnlocked)
          => /\ last'.op = "decrypt"
             /\ last'.error = ""
             /\ last'.value = n
             /\ ~last'.compared]_vars

C34_Witness ==
    /\ last.op = "decrypt"
    /\ last.envelope = encryptV1(1)
    /\ last.error = ""
    /\ last.value = 1
    /\ isUnlocked

\* C35: when the content or the hmac of an envelope made by encrypt is
\* altered, decrypt of it in an unlocked session fails, and decrypt never
\* returns a plaintext other than the one that was encrypted.
C35_AlterationDetected ==
    [][\A n \in Plaintexts : \A e \in Altered :
          (/\ Decrypt(e)
           /\ isUnlocked
           /\ e.authTag = encrypt(n).authTag)
          => /\ e # encrypt(n) => last'.error # ""
             /\ last'.error = "" => last'.value = n]_vars

\* C36: in an unlocked session decrypt of the envelope that encrypt made of
\* a buffer returns that buffer, for every buffer, the empty one included;
\* and decryptFile of the file that encryptFile wrote returns the bytes of
\* the source file.
C36_RoundTrip ==
    /\ [](/\ (last.op = "encrypt" /\ last.error = "")
             => decryptBuffer(last.envelope) =
                    [error |-> "", value |-> last.value]
          /\ (last.op \in {"decrypt", "decryptFile"}
              /\ last.error # "NotUnlocked")
             => last.error = ""
          /\ disk[Append(basePath, <<"o">>)] # <<Absent>>
             => decryptFileBuffer(disk[Append(basePath, <<"o">>)]) =
                    [error |-> "",
                     value |-> disk[Append(storageDir, <<"f">>)]]
          /\ (last.op = "decryptFile" /\ last.error = "")
             => last.value = disk[Append(storageDir, <<"f">>)])
    /\ [][(last.op = "encrypt" /\ last'.op = "decrypt" /\ last'.error = "")
          => last'.value = last.value]_vars

C36_Witness ==
    /\ last.op = "decryptFile"
    /\ last.error = ""
    /\ last.value = <<255, 0, 255, 255>>
    /\ disk[Append(storageDir, <<"f">>)] = <<255, 0, 255, 255>>

\* C37: opens of one note that overlap (the second starts while the first is
\* suspended in the unlock prompt or in the showing of the editor) make one
\* record and one change watcher between them and write the plaintext
\* once: a record is never replaced by that of a later open, its plaintext
\* file is never written again by an open, and its path has one watcher.
C37_OverlappingOpensMakeOneRecord ==
    /\ [][\A t \in TempPaths :
            (tempFiles[t] # NoState /\ gen' > gen)
            => /\ tempFiles'[t] = tempFiles[t]
               /\ plainFile'[t] = plainFile[t]]_vars
    /\ [](\A t \in Own(Cur) :
            tempFiles[t] # NoState
            => Cardinality({w \in watchers : w[1] = t}) = 1)

\* C38: a cleanup that a close event of an earlier editing session of a note
\* scheduled (one that waited for a save in flight, or that ran its final
\* re-encryption) never erases the plaintext or drops the record that a
\* later open of the note created: the record it removes is the one it was
\* started for.
C38_CleanupSparesLaterOpen ==
    [][\A t \in TempPaths :
          (/\ tempFiles[t] # NoState
           /\ \/ tempFiles'[t] = NoState
              \/ plainFile[t] # Absent /\ plainFile'[t] = Absent)
          => /\ (/\ Ran
                 /\ Head(microtasks).origin \in {"tab", "doc"}
                 /\ Head(microtasks).t = t)
                => Head(microtasks).st.gen = tempFiles[t].gen
             /\ \A m \in BagToSet(waiting) :
                   (Resumed(m) /\ m.k = "cleanupWait" /\ m.t = t)
                   => m.st.gen = tempFiles[t].gen]_vars

\* C39: once the delete, rename or move of a note has taken its file from
\* its path, no re-encryption writes an envelope to that path: the file is
\* not recreated under the old name.
C39_RemovedFileStaysRemoved ==
    [][\A p \in Paths : encFile[p] = NoFile => encFile'[p] = NoFile]_vars

\* C40: every plaintext file of a session directory belongs to a record of
\* the manager, which a cleanup is going to erase: no step leaves a
\* plaintext file that no record holds.
C40_NoPlaintextWithoutRecord ==
    \A t \in TempPaths : plainFile[t] # Absent => tempFiles[t] # NoState

====
